---- MODULE Spec2Model ----
(***************************************************************************)
(* Model of util/define_models.py (SetupModel -> InversionModel -> MINEOS   *)
(* card) and util/partial_derivatives.py (Frechet kernels -> inversion G   *)
(* matrix).                                                                *)
(*                                                                         *)
(* Numbers are exact fractions <<n, d>> with d >= 0 in lowest terms.       *)
(* d = 0 encodes the IEEE values numpy produces on a division by zero:     *)
(* <<1,0>> = +inf, <<-1,0>> = -inf, <<0,0>> = nan.  Rounding of float64    *)
(* is not modelled, except for the length of np.arange (arange_rounding).  *)
(* Sequences are 1-based; the Python 0-based indices                       *)
(* (boundary_inds, i_b, ib, i) keep their Python values and are read       *)
(* through At0.                                                            *)
(***************************************************************************)
EXTENDS Integers, Sequences, FiniteSets, TLC

VARIABLES setup_model, output_dirs, stdout, inversion_model, previous_model,
          n_calls, raised, kernels, G_MINEOS, dm_dp_mat, G_inversion_model,
          ref_model, mineos_card_model, previous_card, last_update,
          output_files, arange_rounding, all_rfs, rfs

vars == <<setup_model, output_dirs, stdout, inversion_model, previous_model,
          n_calls, raised, kernels, G_MINEOS, dm_dp_mat, G_inversion_model,
          ref_model, mineos_card_model, previous_card, last_update,
          output_files, arange_rounding, all_rfs, rfs>>

(* ---------------------------------------------------------------------- *)
(* Bounds of the model                                                     *)
(* ---------------------------------------------------------------------- *)
MaxBounds == 2
MaxCalls == 2
MaxObs == 2

(* ---------------------------------------------------------------------- *)
(* float arithmetic (exact fractions plus inf / nan)                       *)
(* ---------------------------------------------------------------------- *)
Abs(n) == IF n < 0 THEN -n ELSE n
Sign(n) == IF n < 0 THEN -1 ELSE IF n > 0 THEN 1 ELSE 0
Max(a, b) == IF a >= b THEN a ELSE b

RECURSIVE GCD(_, _)
GCD(a, b) == IF b = 0 THEN a ELSE GCD(b, a % b)

\* n / d in lowest terms, g the greatest common divisor of n and d
Reduced(n, d, g) == <<Sign(d) * (n \div g), Abs(d) \div g>>

Q(n, d) ==
    IF d = 0 THEN <<Sign(n), 0>> ELSE Reduced(n, d, GCD(Abs(n), Abs(d)))

R(n) == <<n, 1>>
NaN == <<0, 0>>
IsFinite(a) == a[2] # 0
IsNaN(a) == a = NaN

\* a + b over the least common denominator, g = gcd of the denominators
AddOver(a, b, g) ==
    Q(a[1] * (b[2] \div g) + b[1] * (a[2] \div g), (a[2] \div g) * b[2])

FAdd(a, b) ==
    IF IsNaN(a) \/ IsNaN(b) THEN NaN
    ELSE IF ~IsFinite(a) THEN (IF ~IsFinite(b) /\ b # a THEN NaN ELSE a)
    ELSE IF ~IsFinite(b) THEN b
    ELSE AddOver(a, b, GCD(a[2], b[2]))
FNeg(a) == <<-a[1], a[2]>>
FSub(a, b) == FAdd(a, FNeg(b))
\* a * b with the common factors g1 of a[1], b[2] and g2 of b[1], a[2] removed
MulReduced(a, b, g1, g2) ==
    <<(a[1] \div g1) * (b[1] \div g2), (a[2] \div g2) * (b[2] \div g1)>>

FMul(a, b) ==
    IF ~IsFinite(a) \/ ~IsFinite(b) THEN <<Sign(a[1] * b[1]), 0>>
    ELSE MulReduced(a, b, GCD(Abs(a[1]), b[2]), GCD(Abs(b[1]), a[2]))
FRecip(a) == IF a[1] < 0 THEN <<-a[2], -a[1]>> ELSE <<a[2], a[1]>>
FDiv(a, b) == FMul(a, FRecip(b))
\* comparisons are only applied to finite values (depths and thicknesses)
FLt(a, b) == a[1] * b[2] < b[1] * a[2]
FLe(a, b) == a[1] * b[2] <= b[1] * a[2]
\* a // b followed by int(): floor of the quotient
FFloorDiv(a, b) == LET q == FDiv(a, b) IN q[1] \div q[2]

(* ---------------------------------------------------------------------- *)
(* list helpers                                                            *)
(* ---------------------------------------------------------------------- *)
At0(s, i) == s[i + 1]
Last(s) == s[Len(s)]

\* a function over 1..n as the tuple of its values
AsArray(f) == f \o <<>>

\* F(x) for x the value of v, v computed once
Once(v, F(_)) == CHOOSE out \in { F(x) : x \in {v} } : TRUE
Repeat(x, n) == [k \in 1..n |-> x]
Reverse(s) == [k \in 1..Len(s) |-> s[Len(s) + 1 - k]]

\* sum of s[lo..hi], the two halves summed and then added
RECURSIVE SumRange(_, _, _)
SumRange(s, lo, hi) ==
    IF lo > hi THEN R(0)
    ELSE IF lo = hi THEN s[lo]
    ELSE FAdd(SumRange(s, lo, (lo + hi) \div 2),
              SumRange(s, (lo + hi) \div 2 + 1, hi))

\* np.sum(x[:k]) : sum of the first k entries
SumTo(s, k) == SumRange(s, 1, k)

\* sum(x)
SumSeq(s) == SumTo(s, Len(s))

(* ---------------------------------------------------------------------- *)
(* Inputs: reference model card and SetupModel                             *)
(* ---------------------------------------------------------------------- *)
DefaultRefCard == "data/earth_models/prem.csv"

\* the columns of the card after radius, in the order of the csv header
Columns == <<"rho", "vpv", "vsv", "q_kappa", "q_mu", "vph", "vsh", "eta">>

\* one row of the reference card csv (an isotropic reference model)
RefRow(radius, rho, vsv, q_mu) ==
    [ radius |-> R(radius), rho |-> R(rho), vpv |-> FMul(R(vsv), Q(7, 4)),
      vsv |-> R(vsv), q_kappa |-> R(57823), q_mu |-> R(q_mu),
      vph |-> FMul(R(vsv), Q(7, 4)), vsh |-> R(vsv), eta |-> R(1) ]

\* rows of the reference card csv (SI units, increasing radius); the pair of
\* rows at radius 275000 is a discontinuity
RefCard(name) ==
    << RefRow(0,      5000, 0,    0),
       RefRow(100000, 3600, 4800, 143),
       RefRow(200000, 3400, 4600, 143),
       RefRow(240000, 3380, 4500, 80),
       RefRow(275000, 3300, 4400, 600),
       RefRow(275000, 3000, 3900, 600),
       RefRow(290000, 3000, 3500, 600),
       RefRow(300000, 2600, 3200, 600) >>

\* boundaries of interest a caller may configure:
\*   <<depth, depth_uncertainty, width, vsv top, vsv base>>
BoundaryChoices ==
    { <<R(8),  R(1), R(2), Q(17, 5), Q(19, 5)>>,
      <<R(12), R(1), R(2), Q(18, 5), R(4)>>,
      <<R(26), R(0), R(2), Q(19, 5), Q(21, 5)>>,
      <<R(30), R(2), R(5), R(4),     Q(9, 2)>>,
      <<R(40), R(0), R(0), Q(21, 5), Q(22, 5)>>,
      <<R(51), R(1), R(4), Q(22, 5), Q(23, 5)>> }

DepthLimitChoices == { <<R(0), R(60)>>, <<R(0), R(100)>>, <<R(10), R(60)>> }
MinLayerThicknessChoices == { R(3), R(6) }
IdChoices == { "run1" }

RECURSIVE Flatten(_, _)
Flatten(bs, k) ==
    IF bs = <<>> THEN <<>>
    ELSE <<bs[1][k]>> \o Flatten(Tail(bs), k)

RECURSIVE FlattenVsv(_)
FlattenVsv(bs) ==
    IF bs = <<>> THEN <<>>
    ELSE <<bs[1][4], bs[1][5]>> \o FlattenVsv(Tail(bs))

SetupModel(id, bs, limits, mlt) ==
    [ id |-> id,
      boundary_depths |-> Flatten(bs, 1),
      boundary_depth_uncertainty |-> Flatten(bs, 2),
      boundary_widths |-> Flatten(bs, 3),
      boundary_vsv |-> FlattenVsv(bs),
      depth_limits |-> limits,
      Moho |-> <<TRUE, 0>>,
      min_layer_thickness |-> mlt,
      vsv_vsh_ratio |-> R(1),
      vpv_vsv_ratio |-> Q(7, 4),
      vpv_vph_ratio |-> R(1),
      ref_card_csv_name |-> DefaultRefCard ]

\* the caller lists the boundaries by increasing depth (they may still overlap)
BoundaryLists ==
    UNION { { bs \in [1..n -> BoundaryChoices] :
                \A k \in 1..(n - 1) : FLt(bs[k][1], bs[k + 1][1]) } :
            n \in 0..MaxBounds }

SetupModels ==
    { SetupModel(id, bs, limits, mlt) :
        id \in IdChoices, bs \in BoundaryLists,
        limits \in DepthLimitChoices, mlt \in MinLayerThicknessChoices }

\* the literal scenario: depth_limits [0,100], one boundary at 30 km
ScenarioModel ==
    SetupModel("run1", << <<R(30), R(2), R(5), R(4), Q(9, 2)>> >>,
               <<R(0), R(100)>>, R(6))

\* the velocity ratios a caller may configure:
\*   <<vsv_vsh_ratio, vpv_vsv_ratio, vpv_vph_ratio>>
RatioChoices == { <<R(1), Q(7, 4), R(1)>>, <<R(2), Q(7, 4), Q(5, 4)>> }

WithRatios(sm, r) ==
    [sm EXCEPT !.vsv_vsh_ratio = r[1], !.vpv_vsv_ratio = r[2],
               !.vpv_vph_ratio = r[3]]

\* a float holds q exactly when its denominator is a power of two
RECURSIVE IsPowerOfTwo(_)
IsPowerOfTwo(n) == n = 1 \/ (n % 2 = 0 /\ IsPowerOfTwo(n \div 2))
ExactFloat(q) == IsFinite(q) /\ IsPowerOfTwo(q[2])

\* np.arange takes ceil((stop - start) / step) values start + k * step, all in
\* floats.  When the step min_layer_thickness / 3 is exact the grid is exact.
\* When it is rounded and the depth range is a whole number of steps, the
\* rounding decides whether one more value, next to the top radius, is still
\* counted: arange_rounding is 0 when it is not, and otherwise the sign of that
\* value's rounding error (-1 just under the top radius, 1 just over it), as
\* the floats of the platform give it for this SetupModel.
ArangeRoundings(sm) ==
    LET step == FDiv(sm.min_layer_thickness, R(3))
        n_steps == FDiv(FSub(sm.depth_limits[2], sm.depth_limits[1]), step)
    IN  IF IsFinite(n_steps) /\ n_steps[2] = 1 /\ ~ExactFloat(step)
        THEN {-1, 0, 1} ELSE {0}

NoMatrix == <<>>
NoCard == <<>>
NoUpdate == [kind |-> "none", i |-> 0, d |-> R(0)]
NoModel == [vsv |-> <<>>, thickness |-> <<>>, boundary_inds |-> <<>>]

(* ---------------------------------------------------------------------- *)
(* define_models.setup_starting_model                                      *)
(* ---------------------------------------------------------------------- *)
\* np.interp(x, xp, fp) for non-decreasing xp: clamped linear interpolation;
\* the segment is found from the last j with xp[j] <= x, so at a repeated
\* xp the value of the last of the repeated points is returned
np_interp(x, xp, fp) ==
    IF FLt(x, xp[1]) THEN fp[1]
    ELSE IF FLt(Last(xp), x) THEN Last(fp)
    ELSE LET j == CHOOSE j \in 1..Len(xp) :
                      FLe(xp[j], x) /\ (j = Len(xp) \/ FLt(x, xp[j + 1]))
         IN  IF j = Len(xp) \/ xp[j] = x THEN fp[j]
             ELSE FAdd(FMul(FDiv(FSub(fp[j + 1], fp[j]),
                                 FSub(xp[j + 1], xp[j])),
                            FSub(x, xp[j])),
                       fp[j])

\* lines 201-207: depth (km) and vs (km/s) of the reference card, depth
\* increasing, repeated depths pushed apart by 0.01
ref_depth_vs(sm) ==
    LET csv == RefCard(sm.ref_card_csv_name)
        n == Len(csv)
        depth0 == [k \in 1..n |->
                     FMul(FSub(csv[n].radius, csv[k].radius),
                          Q(1, 1000))]
        diff0 == [k \in 1..n |->
                     IF k < n THEN FSub(depth0[k + 1], depth0[k]) ELSE R(0)]
        depth1 == [k \in 1..n |->
                     IF diff0[k] = R(0) THEN FAdd(depth0[k], Q(1, 100))
                     ELSE depth0[k]]
        vs == [k \in 1..n |-> FMul(csv[k].vsv, Q(1, 1000))]
    IN  [ref_depth |-> Reverse(depth1), ref_vs |-> Reverse(vs)]

ref_vs_at(sm, depth) ==
    LET ref == ref_depth_vs(sm) IN np_interp(depth, ref.ref_depth, ref.ref_vs)

\* mutant: the whole width, not half of it, taken off the boundary depth
depth_top_layer_full_width(sm, i_b) ==
    FSub(At0(sm.boundary_depths, i_b), At0(sm.boundary_widths, i_b))

\* lines 216-219
depth_top_layer(sm, i_b) ==
    FSub(At0(sm.boundary_depths, i_b), FDiv(At0(sm.boundary_widths, i_b), R(2)))
depth_base_layer(sm, i_b) ==
    FAdd(depth_top_layer(sm, i_b), At0(sm.boundary_widths, i_b))

\* lines 224-225
padding(sm, i_b) ==
    FAdd(At0(sm.boundary_depth_uncertainty, i_b), sm.min_layer_thickness)

\* mutant: the floor alone, no layer in a gap under min_layer_thickness
n_layers_in_gap_floor_only(gap, min_layer_thickness) ==
    Max(0, FFloorDiv(gap, min_layer_thickness))

\* lines 231-236 and 259-263: max((1, int(gap // min_layer_thickness)))
n_layers_in_gap(gap, min_layer_thickness) ==
    Max(1, FFloorDiv(gap, min_layer_thickness))

\* lines 242-243 and 269-270: vsv += [vsv[-1] + grad * thick], n times
RECURSIVE extend_vsv(_, _, _, _)
extend_vsv(vsv, grad, thick, n) ==
    IF n = 0 THEN vsv
    ELSE CHOOSE out \in
            { extend_vsv(longer, grad, thick, n - 1) :
                longer \in { Append(vsv, FAdd(Last(vsv), FMul(grad, thick))) } } :
            TRUE

\* mutant: top velocity repeated instead of the base velocity
boundary_vsv_nodes_top_twice(vsv_top_layer_i, vsv_base_layer_i) ==
    <<vsv_top_layer_i, vsv_top_layer_i, vsv_base_layer_i>>

\* line 244
boundary_vsv_nodes(vsv_top_layer_i, vsv_base_layer_i) ==
    <<vsv_top_layer_i, vsv_base_layer_i, vsv_base_layer_i>>

\* mutant: the layer below the boundary measured upwards (sign slip)
boundary_thickness_sign_slip(sm, i_b, thickness_layers_above, n_layers_above) ==
    LET depth_top_layer_i == FSub(At0(sm.boundary_depths, i_b),
                                  FDiv(At0(sm.boundary_widths, i_b), R(2)))
        depth_base_layer_i == FAdd(depth_top_layer_i, At0(sm.boundary_widths, i_b))
        pad == FAdd(At0(sm.boundary_depth_uncertainty, i_b),
                    sm.min_layer_thickness)
    IN  Repeat(thickness_layers_above, n_layers_above)
        \o <<FSub(depth_top_layer_i, FSub(depth_top_layer_i, pad))>>
        \o <<At0(sm.boundary_widths, i_b)>>
        \o <<FSub(depth_base_layer_i, FAdd(depth_base_layer_i, pad))>>

\* lines 246-251
boundary_thickness(sm, i_b, thickness_layers_above, n_layers_above) ==
    LET depth_top_layer_i == depth_top_layer(sm, i_b)
        depth_base_layer_i == depth_base_layer(sm, i_b)
        depth_top_layer_i_minus_1 == FSub(depth_top_layer_i, padding(sm, i_b))
        depth_base_layer_i_plus_1 == FAdd(depth_base_layer_i, padding(sm, i_b))
    IN  Repeat(thickness_layers_above, n_layers_above)
        \o <<FSub(depth_top_layer_i, depth_top_layer_i_minus_1)>>
        \o <<At0(sm.boundary_widths, i_b)>>
        \o <<FSub(depth_base_layer_i_plus_1, depth_base_layer_i)>>

\* mutant: index of the boundary layer itself (off by one)
boundary_index_off_by_one(thickness) == Len(thickness) - 2

\* line 255
boundary_index(thickness) == Len(thickness) - 3

\* lines 213-255: one pass of the loop over the boundaries of interest
add_boundary(sm, i_b, m) ==
    LET vsv_top_layer_i == At0(sm.boundary_vsv, i_b * 2)
        vsv_base_layer_i == At0(sm.boundary_vsv, i_b * 2 + 1)
        depth_top_layer_i == depth_top_layer(sm, i_b)
        depth_top_layer_i_minus_1 == FSub(depth_top_layer_i, padding(sm, i_b))
        depth_boundary_above == SumSeq(m.thickness)
        depth_between_boundaries == FSub(depth_top_layer_i, depth_boundary_above)
        gap == FSub(depth_top_layer_i_minus_1, depth_boundary_above)
        n_layers_above == n_layers_in_gap(gap, sm.min_layer_thickness)
        thickness_layers_above == FDiv(gap, R(n_layers_above))
        vsv_grad_above == FDiv(FSub(vsv_top_layer_i, Last(m.vsv)),
                               depth_between_boundaries)
        thickness == m.thickness
                     \o boundary_thickness(sm, i_b, thickness_layers_above,
                                           n_layers_above)
    IN  [ vsv |-> extend_vsv(m.vsv, vsv_grad_above, thickness_layers_above,
                             n_layers_above)
                  \o boundary_vsv_nodes(vsv_top_layer_i, vsv_base_layer_i),
          thickness |-> thickness,
          boundary_inds |-> Append(m.boundary_inds, boundary_index(thickness)) ]

RECURSIVE add_boundaries(_, _, _)
add_boundaries(sm, i_b, m) ==
    IF i_b = Len(sm.boundary_depths) THEN m
    ELSE CHOOSE out \in
            { add_boundaries(sm, i_b + 1, with_i_b) :
                with_i_b \in { add_boundary(sm, i_b, m) } } : TRUE

\* lines 257-271: layers from the last boundary to the base of the model
add_base(sm, m) ==
    LET depth_to_bottom == FSub(sm.depth_limits[2], SumSeq(m.thickness))
        n_layers_below == n_layers_in_gap(depth_to_bottom, sm.min_layer_thickness)
        thick_layers_below == FDiv(depth_to_bottom, R(n_layers_below))
        vsv_grad_below == FDiv(FSub(ref_vs_at(sm, sm.depth_limits[2]),
                                    Last(m.vsv)),
                               depth_to_bottom)
    IN  [ vsv |-> extend_vsv(m.vsv, vsv_grad_below, thick_layers_below,
                             n_layers_below),
          thickness |-> m.thickness \o Repeat(thick_layers_below, n_layers_below),
          boundary_inds |-> m.boundary_inds ]

\* lines 209-211
first_point(sm) ==
    [ vsv |-> <<ref_vs_at(sm, sm.depth_limits[1])>>,
      thickness |-> <<sm.depth_limits[1]>>,
      boundary_inds |-> <<>> ]

\* mutant: os.mkdir without the try / except
mkdir_output_uncaught(dirs, id) ==
    IF id \in dirs
    THEN [dirs |-> dirs, printed |-> <<>>, raised |-> "FileExistsError"]
    ELSE [dirs |-> dirs \cup {id}, printed |-> <<>>, raised |-> "None"]

\* lines 195-198: os.mkdir inside try / bare except
mkdir_output(dirs, id) ==
    IF id \in dirs
    THEN [dirs |-> dirs, printed |-> <<"This model ID has already been used!">>,
          raised |-> "None"]
    ELSE [dirs |-> dirs \cup {id}, printed |-> <<>>, raised |-> "None"]

\* lines 194-276: the value returned (NoModel when an exception escapes)
setup_starting_model(sm, dirs) ==
    IF mkdir_output(dirs, sm.id).raised # "None" THEN NoModel
    ELSE add_base(sm, add_boundaries(sm, 0, first_point(sm)))

(* ---------------------------------------------------------------------- *)
(* numpy arrays: [ndim, data]; data is a list of numbers (ndim 1) or a     *)
(* list of equally long rows (ndim 2)                                      *)
(* ---------------------------------------------------------------------- *)
Array1(xs) == [ndim |-> 1, data |-> xs]
Array2(rows) == [ndim |-> 2, data |-> rows]
Zeros(n) == Repeat(R(0), n)
ZerosMat(n_rows, n_cols) == Repeat(Zeros(n_cols), n_rows)

\* sum over lo <= k <= hi of xs[k] * ys[k]
RECURSIVE DotRange(_, _, _, _)
DotRange(xs, ys, lo, hi) ==
    IF lo > hi THEN R(0)
    ELSE IF lo = hi THEN FMul(xs[lo], ys[lo])
    ELSE LET mid == (lo + hi) \div 2
         IN  FAdd(DotRange(xs, ys, lo, mid), DotRange(xs, ys, mid + 1, hi))
Dot(xs, ys) == DotRange(xs, ys, 1, Len(xs))

ColumnOf(rows, c) == AsArray([k \in 1..Len(rows) |-> rows[k][c]])
NCols(rows) == IF rows = <<>> THEN 0 ELSE Len(rows[1])

\* np.hstack of two 2-D arrays with the same number of rows
HStack(a, b) == [k \in 1..Len(a) |-> a[k] \o b[k]]
ScaleMat(rows, f) == [k \in 1..Len(rows) |-> [c \in 1..Len(rows[k]) |-> FMul(rows[k][c], f)]]

\* np.matmul(a, b) with b 2-D: a 1-D operand is treated as a single row and
\* the result is 1-D again; mismatched inner sizes raise ValueError
np_matmul(a, b) ==
    LET row_times(r) == [c \in 1..NCols(b.data) |-> Dot(r, ColumnOf(b.data, c))]
    IN  IF a.ndim = 1
        THEN IF Len(a.data) # Len(b.data)
             THEN [raised |-> "ValueError", value |-> NoMatrix]
             ELSE [raised |-> "None", value |-> Array1(row_times(a.data))]
        ELSE IF NCols(a.data) # Len(b.data)
             THEN [raised |-> "ValueError", value |-> NoMatrix]
             ELSE [raised |-> "None",
                   value |-> Array2([k \in 1..Len(a.data) |-> row_times(a.data[k])])]

(* ---------------------------------------------------------------------- *)
(* partial_derivatives: the MINEOS G matrix                                *)
(* ---------------------------------------------------------------------- *)
\* kernels.<col>[kernels.period == period], in table order
RECURSIVE KernelColumn(_, _, _)
KernelColumn(ks, period, col) ==
    IF ks = <<>> THEN <<>>
    ELSE (IF ks[1].period = period THEN <<ks[1][col]>> ELSE <<>>)
         \o KernelColumn(Tail(ks), period, col)

\* np.unique(kernels['period']): the distinct periods, increasing
RECURSIVE SortedSet(_)
SortedSet(S) ==
    IF S = {} THEN <<>>
    ELSE LET lo == CHOOSE x \in S : \A y \in S : x <= y
         IN  <<lo>> \o SortedSet(S \ {lo})

np_unique_periods(ks) == SortedSet({ ks[k].period : k \in 1..Len(ks) })

\* kernels['z'].unique(): the distinct depths in order of first appearance
RECURSIVE pd_unique(_)
pd_unique(xs) ==
    IF xs = <<>> THEN <<>>
    ELSE LET init == pd_unique(SubSeq(xs, 1, Len(xs) - 1))
         IN  IF \E k \in 1..Len(init) : init[k] = Last(xs)
             THEN init ELSE Append(init, Last(xs))

kernel_depths(ks) == pd_unique([k \in 1..Len(ks) |-> ks[k].z])

\* mutant: the Vsh kernel of a Rayleigh table kept, not zeroed
_hstack_frechet_kernels_vsh_kept(ks, period) ==
    LET vsv == KernelColumn(ks, period, "vsv")
        type0 == ks[1].type
    IN  IF type0 = "Rayleigh"
        THEN [raised |-> "None",
              value |-> vsv \o KernelColumn(ks, period, "vsh")
                        \o KernelColumn(ks, period, "vpv")
                        \o KernelColumn(ks, period, "vph")
                        \o KernelColumn(ks, period, "eta")]
        ELSE IF type0 = "Love"
        THEN [raised |-> "None",
              value |-> vsv \o KernelColumn(ks, period, "vsh")
                        \o Zeros(Len(vsv)) \o Zeros(Len(vsv)) \o Zeros(Len(vsv))]
        ELSE [raised |-> "UnboundLocalError", value |-> <<>>]

\* lines 212-226: the wave type is read from the first row of the table
_hstack_frechet_kernels(ks, period) ==
    LET vsv == KernelColumn(ks, period, "vsv")
        type0 == ks[1].type
    IN  IF type0 = "Rayleigh"
        THEN [raised |-> "None",
              value |-> vsv \o Zeros(Len(vsv))
                        \o KernelColumn(ks, period, "vpv")
                        \o KernelColumn(ks, period, "vph")
                        \o KernelColumn(ks, period, "eta")]
        ELSE IF type0 = "Love"
        THEN [raised |-> "None",
              value |-> vsv \o KernelColumn(ks, period, "vsh")
                        \o Zeros(Len(vsv)) \o Zeros(Len(vsv)) \o Zeros(Len(vsv))]
        ELSE [raised |-> "UnboundLocalError", value |-> <<>>]

\* lines 167-180: first period's row, then np.vstack of one row per period
_build_MINEOS_G_matrix(ks) ==
    LET periods == np_unique_periods(ks)
        rows == [k \in 1..Len(periods) |-> _hstack_frechet_kernels(ks, periods[k])]
    IN  IF Len(periods) = 0
        THEN [raised |-> "IndexError", value |-> NoMatrix]
        ELSE IF \E k \in 1..Len(rows) : rows[k].raised # "None"
        THEN [raised |-> "UnboundLocalError", value |-> NoMatrix]
        ELSE IF Len(periods) = 1
        THEN [raised |-> "None", value |-> Array1(rows[1].value)]
        ELSE IF \E k \in 2..Len(rows) : Len(rows[k].value) # Len(rows[1].value)
        THEN [raised |-> "ValueError", value |-> NoMatrix]
        ELSE [raised |-> "None",
              value |-> Array2([k \in 1..Len(rows) |-> rows[k].value])]

(* ---------------------------------------------------------------------- *)
(* partial_derivatives: dm/ds and dm/dt                                    *)
(* ---------------------------------------------------------------------- *)
\* mat[i_d, i] = val(i_d) for every i_d in d_inds (rows 1-based, i 0-based)
AssignColumn(mat, d_inds, i, val(_)) ==
    CHOOSE out \in
        { AsArray([k \in 1..Len(m) |->
              IF k \in d_inds
              THEN AsArray([c \in 1..Len(m[k]) |->
                               IF c = i + 1 THEN val(k) ELSE m[k][c]])
              ELSE m[k]]) : m \in {mat} } : TRUE

\* mutant: the offset taken from y_i, not from y_i-1
_convert_kernels_d_shallowerm_by_d_s_from_y_i(model, i, depth, dm_ds_mat) ==
    LET y_i_minus_1 == SumTo(model.thickness, i)
        y_i == SumTo(model.thickness, i + 1)
        d_inds == { k \in 1..Len(depth) :
                      FLt(y_i_minus_1, depth[k]) /\ FLe(depth[k], y_i) }
        val(k) == FDiv(FSub(depth[k], y_i), At0(model.thickness, i))
    IN  AssignColumn(dm_ds_mat, d_inds, i, val)

\* lines 508-517
_convert_kernels_d_shallowerm_by_d_s(model, i, depth, dm_ds_mat) ==
    LET y_i_minus_1 == SumTo(model.thickness, i)
        y_i == SumTo(model.thickness, i + 1)
        d_inds == { k \in 1..Len(depth) :
                      FLt(y_i_minus_1, depth[k]) /\ FLe(depth[k], y_i) }
        val(k) == FDiv(FSub(depth[k], y_i_minus_1), At0(model.thickness, i))
    IN  AssignColumn(dm_ds_mat, d_inds, i, val)

\* mutant: the fraction of the layer itself, not what is left of it
_convert_kernels_d_deeperm_by_d_s_fraction(model, i, depth, dm_ds_mat) ==
    LET y_i == SumTo(model.thickness, i + 1)
        y_i_plus_1 == SumTo(model.thickness, i + 2)
        d_inds == { k \in 1..Len(depth) :
                      FLe(y_i, depth[k]) /\ FLt(depth[k], y_i_plus_1) }
        val(k) == FDiv(FSub(depth[k], y_i), At0(model.thickness, i + 1))
    IN  AssignColumn(dm_ds_mat, d_inds, i, val)

\* lines 566-575
_convert_kernels_d_deeperm_by_d_s(model, i, depth, dm_ds_mat) ==
    LET y_i == SumTo(model.thickness, i + 1)
        y_i_plus_1 == SumTo(model.thickness, i + 2)
        d_inds == { k \in 1..Len(depth) :
                      FLe(y_i, depth[k]) /\ FLt(depth[k], y_i_plus_1) }
        val(k) == FSub(R(1), FDiv(FSub(depth[k], y_i),
                                  At0(model.thickness, i + 1)))
    IN  AssignColumn(dm_ds_mat, d_inds, i, val)

\* lines 374-380: the loop over the columns 1 .. n_layers - 1
RECURSIVE dm_ds_columns(_, _, _, _, _)
dm_ds_columns(model, i, n_layers, depth, dm_ds_mat) ==
    IF i >= n_layers THEN dm_ds_mat
    ELSE CHOOSE out \in
            { dm_ds_columns(model, i + 1, n_layers, depth, column_i) :
                column_i \in
                  { _convert_kernels_d_deeperm_by_d_s(model, i, depth,
                      _convert_kernels_d_shallowerm_by_d_s(model, i, depth,
                                                           dm_ds_mat)) } } : TRUE

\* lines 367-382
_calculate_dm_ds(model, depth) ==
    LET n_layers == Len(model.vsv) - 1
    IN  dm_ds_columns(model, 1, n_layers, depth,
            _convert_kernels_d_deeperm_by_d_s(model, 0, depth,
                ZerosMat(Len(depth), n_layers)))

\* mutant: divided by t_i, not by t_i ** 2
_convert_kernels_d_shallowerm_by_d_t_over_t_i(model, i, depth, dm_dt_mat) ==
    LET ib == At0(model.boundary_inds, i)
        t_i == At0(model.thickness, ib)
        y_ib_minus_1 == SumTo(model.thickness, ib)
        y_ib == SumTo(model.thickness, ib + 1)
        d_inds == { k \in 1..Len(depth) :
                      FLt(y_ib_minus_1, depth[k]) /\ FLt(depth[k], y_ib) }
        val(k) == FNeg(FDiv(FMul(FSub(At0(model.vsv, ib), At0(model.vsv, ib - 1)),
                                 FSub(depth[k], y_ib_minus_1)),
                            t_i))
    IN  AssignColumn(dm_dt_mat, d_inds, i, val)

\* lines 629-643
_convert_kernels_d_shallowerm_by_d_t(model, i, depth, dm_dt_mat) ==
    LET ib == At0(model.boundary_inds, i)
        t_i == At0(model.thickness, ib)
        y_ib_minus_1 == SumTo(model.thickness, ib)
        y_ib == SumTo(model.thickness, ib + 1)
        d_inds == { k \in 1..Len(depth) :
                      FLt(y_ib_minus_1, depth[k]) /\ FLt(depth[k], y_ib) }
        val(k) == FNeg(FDiv(FMul(FSub(At0(model.vsv, ib), At0(model.vsv, ib - 1)),
                                 FSub(depth[k], y_ib_minus_1)),
                            FMul(t_i, t_i)))
    IN  AssignColumn(dm_dt_mat, d_inds, i, val)

\* lines 690-707
_convert_kernels_d_withinboundarym_by_d_t(model, i, depth, dm_dt_mat) ==
    LET ib == At0(model.boundary_inds, i)
        w_i == At0(model.thickness, ib + 1)
        y_ib == SumTo(model.thickness, ib + 1)
        y_ib_plus_1 == SumTo(model.thickness, ib + 2)
        d_inds == { k \in 1..Len(depth) :
                      FLe(y_ib, depth[k]) /\ FLt(depth[k], y_ib_plus_1) }
        val(k) == FNeg(FDiv(FSub(At0(model.vsv, ib + 1), At0(model.vsv, ib)),
                            w_i))
    IN  AssignColumn(dm_dt_mat, d_inds, i, val)

\* mutant: the distance is measured from the base of the boundary layer
_convert_kernels_d_deeperm_by_d_t_from_base(model, i, depth, dm_dt_mat) ==
    LET ib == At0(model.boundary_inds, i)
        t_i == At0(model.thickness, ib)
        w_i == At0(model.thickness, ib + 1)
        y_ib_minus_1 == SumTo(model.thickness, ib)
        y_ib_plus_1 == SumTo(model.thickness, ib + 2)
        y_ib_plus_2 == SumTo(model.thickness, ib + 3)
        d_inds == { k \in 1..Len(depth) :
                      FLe(y_ib_plus_1, depth[k]) /\ FLt(depth[k], y_ib_plus_2) }
        denom == FSub(t_i, FSub(FSub(y_ib_plus_2, y_ib_minus_1), w_i))
        val(k) == FDiv(FMul(FSub(At0(model.vsv, ib + 2), At0(model.vsv, ib + 1)),
                            FSub(depth[k], y_ib_plus_1)),
                       FMul(denom, denom))
    IN  AssignColumn(dm_dt_mat, d_inds, i, val)

\* lines 800-816
_convert_kernels_d_deeperm_by_d_t(model, i, depth, dm_dt_mat) ==
    LET ib == At0(model.boundary_inds, i)
        t_i == At0(model.thickness, ib)
        w_i == At0(model.thickness, ib + 1)
        y_ib_minus_1 == SumTo(model.thickness, ib)
        y_ib_plus_1 == SumTo(model.thickness, ib + 2)
        y_ib_plus_2 == SumTo(model.thickness, ib + 3)
        d_inds == { k \in 1..Len(depth) :
                      FLe(y_ib_plus_1, depth[k]) /\ FLt(depth[k], y_ib_plus_2) }
        denom == FSub(t_i, FSub(FSub(y_ib_plus_2, y_ib_minus_1), w_i))
        val(k) == FDiv(FMul(FSub(At0(model.vsv, ib + 2), At0(model.vsv, ib + 1)),
                            FSub(depth[k], y_ib_plus_2)),
                       FMul(denom, denom))
    IN  AssignColumn(dm_dt_mat, d_inds, i, val)

\* lines 444-453: the loop over the boundaries
RECURSIVE dm_dt_columns(_, _, _, _)
dm_dt_columns(model, i, depth, dm_dt_mat) ==
    IF i >= Len(model.boundary_inds) THEN dm_dt_mat
    ELSE CHOOSE out \in
            { dm_dt_columns(model, i + 1, depth, column_i) :
                column_i \in
                  { _convert_kernels_d_deeperm_by_d_t(model, i, depth,
                      _convert_kernels_d_withinboundarym_by_d_t(model, i, depth,
                        _convert_kernels_d_shallowerm_by_d_t(model, i, depth,
                                                             dm_dt_mat))) } } : TRUE

\* lines 441-455
_calculate_dm_dt(model, depth) ==
    dm_dt_columns(model, 0, depth,
                  ZerosMat(Len(depth), Len(model.boundary_inds)))

\* lines 317-321
_convert_to_model_kernels(depth, model) ==
    HStack(_calculate_dm_ds(model, depth), _calculate_dm_dt(model, depth))

\* mutant: dVsh/dp multiplied by vsv_vsh_ratio instead of divided by it
_scale_dvsv_dp_times_vsv_vsh_ratio(dvsv_dp_mat, sm) ==
    dvsv_dp_mat
    \o ScaleMat(dvsv_dp_mat, sm.vsv_vsh_ratio)
    \o ScaleMat(dvsv_dp_mat, sm.vpv_vsv_ratio)
    \o ScaleMat(dvsv_dp_mat, FDiv(sm.vpv_vsv_ratio, sm.vpv_vph_ratio))
    \o ZerosMat(Len(dvsv_dp_mat), NCols(dvsv_dp_mat))

\* lines 838-845
_scale_dvsv_dp_to_other_variables(dvsv_dp_mat, sm) ==
    dvsv_dp_mat
    \o ScaleMat(dvsv_dp_mat, FRecip(sm.vsv_vsh_ratio))
    \o ScaleMat(dvsv_dp_mat, sm.vpv_vsv_ratio)
    \o ScaleMat(dvsv_dp_mat, FDiv(sm.vpv_vsv_ratio, sm.vpv_vph_ratio))
    \o ZerosMat(Len(dvsv_dp_mat), NCols(dvsv_dp_mat))

\* lines 130-139
_build_partial_derivatives_matrix(ks, model, sm) ==
    LET G == _build_MINEOS_G_matrix(ks)
        dvsv_dp_mat == _convert_to_model_kernels(kernel_depths(ks), model)
        dm_dp == Array2(_scale_dvsv_dp_to_other_variables(dvsv_dp_mat, sm))
        prod == np_matmul(G.value, dm_dp)
    IN  IF G.raised # "None"
        THEN [raised |-> G.raised, G_MINEOS |-> NoMatrix, dm_dp_mat |-> NoMatrix,
              value |-> NoMatrix]
        ELSE [raised |-> prod.raised, G_MINEOS |-> G.value, dm_dp_mat |-> dm_dp,
              value |-> prod.value]

(* ---------------------------------------------------------------------- *)
(* Inputs: kernel tables returned by the forward solver                    *)
(* ---------------------------------------------------------------------- *)
Periods == { 10, 20 }
WaveTypes == { "Rayleigh", "Love" }
Observations == [period : Periods, type : WaveTypes]

\* the observations of a table, in the order their rows appear
ObservationLists ==
    UNION { { os \in [1..n -> Observations] :
                \A j, k \in 1..n : j # k => os[j] # os[k] } :
            n \in 1..MaxObs }

\* card depths (km) of the kernel rows, in table order
DepthGrids ==
    { << R(60), R(57), R(40), Q(55, 2), R(20), R(13), R(11), R(4), R(0) >> }

\* one kernel row; the five kernel values differ from each other, from row
\* to row and from zero
KernelRow(o, z, k) ==
    LET base == (o.period \div 10) + 2 * k + (IF o.type = "Love" THEN 1 ELSE 0)
    IN  [ period |-> o.period, type |-> o.type, z |-> z,
          vsv |-> R(base), vsh |-> R(base + 1), vpv |-> R(2 * base),
          vph |-> R(2 * base + 1), eta |-> R(3 * base) ]

RECURSIVE KernelTable(_, _)
KernelTable(os, grid) ==
    IF os = <<>> THEN <<>>
    ELSE [k \in 1..Len(grid) |-> KernelRow(os[1], grid[k], k)]
         \o KernelTable(Tail(os), grid)

\* tables with rows of a wave type that is neither Rayleigh nor Love: in
\* every row, and in the rows of the second period only
OtherTypeTables ==
    { KernelTable(os, grid) :
        os \in { <<[period |-> 10, type |-> "Spheroidal"]>>,
                 <<[period |-> 10, type |-> "Rayleigh"],
                   [period |-> 20, type |-> "Spheroidal"]>> },
        grid \in DepthGrids }

\* a table whose second period lists its depth rows deepest last, the first
\* period deepest first
ReorderedTables ==
    { KernelTable(<<[period |-> 10, type |-> "Rayleigh"]>>, grid)
      \o KernelTable(<<[period |-> 20, type |-> "Rayleigh"]>>, Reverse(grid)) :
        grid \in DepthGrids }

KernelTables ==
    { KernelTable(os, grid) : os \in ObservationLists, grid \in DepthGrids }
    \cup OtherTypeTables \cup ReorderedTables

(* ---------------------------------------------------------------------- *)
(* constraints.py: receiver-function constraints                           *)
(* ---------------------------------------------------------------------- *)
\* one row of data/RFconstraints/a_priori_constraints.csv with travel time
\* and velocity contrast for the Moho and travel time, type and amplitude
\* for the LAB
RfRow(lat, lon, ttMoho, ttMohostd, dvMoho, dvMohostd, ttLAB, ttLABstd, typeLAB, ampLAB, ampLABstd) ==
    [ lat |-> lat, lon |-> lon, ttMoho |-> ttMoho, ttMohostd |-> ttMohostd,
      dvMoho |-> dvMoho, dvMohostd |-> dvMohostd, ttLAB |-> ttLAB,
      ttLABstd |-> ttLABstd, typeLAB |-> typeLAB, ampLAB |-> ampLAB,
      ampLABstd |-> ampLABstd ]

\* a table without the columns `cols`
WithoutColumns(table, cols) ==
    [k \in 1..Len(table) |->
        [c \in (DOMAIN table[k]) \ cols |-> table[k][c]]]

\* some of the reported standard deviations are zero
APrioriConstraints ==
    << RfRow(R(35), R(-110), R(4), R(0), Q(1, 10), R(0),
             R(9), R(0), "Sp", Q(1, 20), R(0)),
       RfRow(R(36), R(-110), Q(9, 2), Q(1, 10), Q(3, 20), Q(1, 100),
             R(10), Q(1, 5), "Sp", Q(1, 40), Q(1, 100)),
       RfRow(R(40), R(250), R(5), Q(1, 5), Q(1, 5), Q(1, 50),
             R(8), Q(2, 5), "Ps", Q(1, 10), Q(1, 50)),
       RfRow(R(45), R(-100), R(6), Q(3, 10), Q(1, 4), Q(1, 25),
             R(11), Q(3, 5), "Sp", Q(3, 40), Q(1, 25)) >>

\* the file as above, without velocity contrasts for the Moho, without the
\* type of the LAB phase, and without the travel time error of the LAB
ConstraintFiles ==
    { APrioriConstraints,
      WithoutColumns(APrioriConstraints, {"dvMoho", "dvMohostd"}),
      WithoutColumns(APrioriConstraints, {"typeLAB"}),
      WithoutColumns(APrioriConstraints, {"ttLABstd"}) }

\* data/RFconstraints/synthvals_<rftype>.csv: the docstring of
\* _convert_amplitude_to_dv writes the one for Sp only
SynthRow(breadth, dv, amplitude) ==
    [breadth |-> R(breadth), dv |-> dv, amplitude |-> amplitude]
SynthFiles ==
    [ rftype \in {"Sp"} |->
        << SynthRow(5, R(0), R(0)), SynthRow(5, Q(-1, 20), Q(1, 20)),
           SynthRow(5, Q(-1, 10), Q(3, 20)),
           SynthRow(10, R(0), R(0)), SynthRow(10, Q(-1, 20), Q(1, 40)),
           SynthRow(10, Q(-1, 10), Q(1, 10)) >> ]

NotCalled == [called |-> FALSE]
NoConstraintsRead == all_rfs = APrioriConstraints /\ rfs = NotCalled

\* the values of one column of a table, in increasing order
RECURSIVE SortedValues(_)
SortedValues(S) ==
    IF S = {} THEN <<>>
    ELSE LET lo == CHOOSE x \in S : \A y \in S : FLe(x[2], y[2]) /\
                       (x[2] = y[2] => x[1] <= y[1])
         IN  <<lo[2]>> \o SortedValues(S \ {lo})

\* pandas Series.quantile(q), linear interpolation between the two nearest
\* ranks of the sorted values
quantile(values, q) ==
    LET sorted == SortedValues({ <<k, values[k]>> : k \in 1..Len(values) })
        h == FMul(R(Len(values) - 1), q)
        lo == FFloorDiv(h, R(1))
        frac == FSub(h, R(lo))
    IN  IF lo + 1 >= Len(sorted) THEN sorted[Len(sorted)]
        ELSE FAdd(sorted[lo + 1],
                  FMul(frac, FSub(sorted[lo + 2], sorted[lo + 1])))

\* lines 275-295: index of the row closest to the location, and what is
\* printed
_find_closest_lat_lon(df, location) ==
    LET lat == location[1]
        lon == IF FLt(R(180), location[2]) THEN FSub(location[2], R(360))
               ELSE location[2]
        df_lon(k) == IF FLt(R(180), df[k].lon) THEN FSub(df[k].lon, R(360))
                     ELSE df[k].lon
        distance_squared ==
            AsArray([k \in 1..Len(df) |->
                FAdd(FMul(FSub(df_lon(k), lon), FSub(df_lon(k), lon)),
                     FMul(FSub(df[k].lat, lat), FSub(df[k].lat, lat)))])
        min_ind == CHOOSE k \in 1..Len(df) :
                      /\ \A j \in 1..Len(df) :
                            FLe(distance_squared[k], distance_squared[j])
                      /\ \A j \in 1..(k - 1) :
                            FLt(distance_squared[k], distance_squared[j])
    IN  [ value |-> min_ind,
          printed |-> IF FLt(R(1), distance_squared[min_ind])
                      THEN <<"!!!!!! Closest observation at">> ELSE <<>> ]

\* np.round(x, 3): to the nearest thousandth, halves to the even one
np_round_3(x) ==
    LET t == FMul(x, R(1000))
        lo == FFloorDiv(t, R(1))
        twice == FSub(FMul(t, R(2)), R(2 * lo))
    IN  FDiv(R(IF FLt(twice, R(1)) THEN lo
               ELSE IF FLt(R(1), twice) THEN lo + 1
               ELSE IF lo % 2 = 0 THEN lo ELSE lo + 1),
             R(1000))

FAbs(x) == IF FLt(x, R(0)) THEN FNeg(x) ELSE x
FMax(a, b) == IF FLt(a, b) THEN b ELSE a

\* lines 126-156: <<dv, dvstd>>, or None when there is no file of
\* synthetics for the type (unpacking None raises in the caller); np.interp
\* raises ValueError when no synthetic has the breadth of the boundary
_convert_amplitude_to_dv(amp, ampstd, rftype, boundary_width) ==
    IF rftype \notin DOMAIN SynthFiles
    THEN [raised |-> "None", is_None |-> TRUE, value |-> <<>>,
          printed |-> <<"No synthetic amplitudes calculated for " \o rftype
                        \o "!">>]
    ELSE LET file == SynthFiles[rftype]
             HasBreadth(row) == row.breadth = boundary_width
             synth == SelectSeq(file, HasBreadth)
             amplitude == [k \in 1..Len(synth) |-> synth[k].amplitude]
             dv == [k \in 1..Len(synth) |-> synth[k].dv]
         IN  IF synth = <<>>
             THEN [raised |-> "ValueError", is_None |-> FALSE, value |-> <<>>,
                   printed |-> <<>>]
             ELSE [raised |-> "None", is_None |-> FALSE, printed |-> <<>>,
                   value |-> << np_round_3(np_interp(amp, amplitude, dv)),
                                FAbs(np_round_3(np_interp(ampstd, amplitude,
                                                          dv))) >>]

\* lines 95-99: the std reported with a dv read from the dv columns:
\* ampstd = max((dvstd, min_allowed_dvstd)) leaves dvstd as read
reported_dvstd(dvstd, ampstd) == dvstd

\* lines 70-117: one pass of the loop over bnames; the row to append, or
\* the return of None
rf_constraint(table, obs, location, bound, boundary_width, vpvs) ==
    LET has(col) == col \in DOMAIN obs
        tt_cols == has("tt" \o bound) /\ has("tt" \o bound \o "std")
        rftype == IF has("type" \o bound) THEN obs["type" \o bound] ELSE "Ps"
        type_printed ==
            IF has("type" \o bound) THEN <<>>
            ELSE <<"RF type unspecified for " \o bound \o " - assuming Ps">>
        scale == IF rftype = "Sp" THEN vpvs ELSE R(1)
        dv_cols == has("dv" \o bound) /\ has("dv" \o bound \o "std")
        amp_cols == has("amp" \o bound) /\ has("amp" \o bound \o "std")
        std_floor(col) ==
            FMax(obs[col],
                 quantile([k \in 1..Len(table) |-> table[k][col]], Q(1, 10)))
    IN  IF ~tt_cols
        THEN [ returned |-> TRUE,
               printed |-> <<"No RF constraints on travel time for "
                             \o bound>> ]
        ELSE IF dv_cols
        THEN [ returned |-> FALSE, printed |-> type_printed,
               row |-> [ lat |-> location[1], lon |-> location[2],
                         tt |-> FMul(obs["tt" \o bound], scale),
                         ttstd |-> FMul(std_floor("tt" \o bound \o "std"),
                                        scale),
                         dv |-> obs["dv" \o bound],
                         dvstd |-> reported_dvstd(
                                      obs["dv" \o bound \o "std"],
                                      std_floor("dv" \o bound \o "std")) ] ]
        ELSE IF ~amp_cols
        THEN [ returned |-> TRUE,
               printed |-> type_printed
                           \o <<"No RF constraints on dV for " \o bound>> ]
        ELSE LET converted ==
                     _convert_amplitude_to_dv(
                         obs["amp" \o bound],
                         std_floor("amp" \o bound \o "std"),
                         rftype, boundary_width)
             IN  IF converted.is_None \/ converted.raised # "None"
                 THEN [ returned |-> TRUE,
                        printed |-> type_printed \o converted.printed
                                    \o <<"No RF constraints on dV for "
                                          \o bound>> ]
                 ELSE [ returned |-> FALSE, printed |-> type_printed,
                        row |-> [ lat |-> location[1], lon |-> location[2],
                                  tt |-> FMul(obs["tt" \o bound], scale),
                                  ttstd |->
                                      FMul(std_floor("tt" \o bound \o "std"),
                                           scale),
                                  dv |-> converted.value[1],
                                  dvstd |-> converted.value[2] ] ]

\* lines 66-121: the loop from boundary ib on
RECURSIVE rf_constraints_from(_, _, _, _, _, _, _)
rf_constraints_from(table, obs, location, boundaries, vpvs, ib, so_far) ==
    IF ib > Len(boundaries[1]) THEN so_far
    ELSE LET one == rf_constraint(table, obs, location, boundaries[1][ib],
                                  boundaries[2][ib], vpvs)
         IN  IF one.returned
             THEN [ is_None |-> TRUE, value |-> <<>>,
                    printed |-> so_far.printed \o one.printed ]
             ELSE rf_constraints_from(
                      table, obs, location, boundaries, vpvs, ib + 1,
                      [ is_None |-> FALSE,
                        value |-> Append(so_far.value, one.row),
                        printed |-> so_far.printed \o one.printed ])

\* lines 51-121: the DataFrame returned (None after a print of 'No RF
\* constraints') and what is printed
_extract_rf_constraints(table, location, id, boundaries, vpvs) ==
    LET ind == _find_closest_lat_lon(table, location)
    IN  rf_constraints_from(table, table[ind.value], location, boundaries,
                            vpvs, 1,
                            [ is_None |-> FALSE, value |-> <<>>,
                              printed |-> ind.printed ])

(* ---------------------------------------------------------------------- *)
(* State machine: a caller holding one SetupModel                          *)
(* ---------------------------------------------------------------------- *)
InitCommon ==
    /\ output_dirs \in { {}, {"run1"} }
    /\ stdout = <<>>
    /\ inversion_model = NoModel
    /\ previous_model = NoModel
    /\ n_calls = 0
    /\ raised = "None"
    /\ kernels = <<>>
    /\ G_MINEOS = NoMatrix
    /\ dm_dp_mat = NoMatrix
    /\ G_inversion_model = NoMatrix
    /\ ref_model = RefCard(setup_model.ref_card_csv_name)
    /\ mineos_card_model = NoCard
    /\ previous_card = NoCard
    /\ last_update = NoUpdate
    /\ output_files = {}
    /\ arange_rounding \in ArangeRoundings(setup_model)

Init ==
    /\ setup_model \in SetupModels \cup {ScenarioModel}
    /\ InitCommon
    /\ NoConstraintsRead

\* a call of setup_starting_model(setup_model)
Build ==
    /\ n_calls < MaxCalls
    /\ LET made == mkdir_output(output_dirs, setup_model.id)
       IN  /\ output_dirs' = made.dirs
           /\ stdout' = stdout \o made.printed
           /\ raised' = made.raised
    /\ inversion_model' = setup_starting_model(setup_model, output_dirs)
    /\ previous_model' = inversion_model
    /\ n_calls' = n_calls + 1
    /\ UNCHANGED <<setup_model, kernels, G_MINEOS, dm_dp_mat, G_inversion_model,
                   ref_model, mineos_card_model, previous_card, last_update,
                   output_files, arange_rounding, all_rfs, rfs>>

Next == Build

Spec == Init /\ [][Next]_vars

\* the forward solver hands back the kernel table of an iteration
RunMineos ==
    /\ inversion_model # NoModel
    /\ kernels = <<>>
    /\ G_inversion_model = NoMatrix /\ raised = "None"
    /\ kernels' \in KernelTables
    /\ UNCHANGED <<setup_model, output_dirs, stdout, inversion_model,
                   previous_model, n_calls, raised, G_MINEOS, dm_dp_mat,
                   G_inversion_model, ref_model, mineos_card_model,
                   previous_card, last_update,
                   output_files, arange_rounding, all_rfs, rfs>>

\* a call of _build_partial_derivatives_matrix(kernels, model, setup_model)
BuildJacobian ==
    /\ inversion_model # NoModel
    /\ G_inversion_model = NoMatrix /\ raised = "None"
    /\ LET out == _build_partial_derivatives_matrix(kernels, inversion_model,
                                                    setup_model)
       IN  /\ raised' = out.raised
           /\ G_MINEOS' = out.G_MINEOS
           /\ dm_dp_mat' = out.dm_dp_mat
           /\ G_inversion_model' = out.value
    /\ UNCHANGED <<setup_model, output_dirs, stdout, inversion_model,
                   previous_model, n_calls, kernels, ref_model,
                   mineos_card_model, previous_card, last_update,
                   output_files, arange_rounding, all_rfs, rfs>>

\* the Jacobian is studied on the starting models of these SetupModels
JacobianSetupModels ==
    { sm \in SetupModels :
        /\ sm.depth_limits = <<R(0), R(60)>>
        /\ sm.min_layer_thickness = R(6)
        /\ \A k \in 1..Len(sm.boundary_depths) :
              sm.boundary_depths[k] \in { R(8), R(12), R(30), R(40) } }

\* the model of a later iteration: the solver has moved every velocity
LaterIterate(m) ==
    [m EXCEPT !.vsv = [k \in 1..Len(m.vsv) |-> FAdd(m.vsv[k], Q(k % 3, 10))]]

\* the starting model m of sm, a later iterate of it when it has a boundary,
\* and m under the other velocity ratios for the boundary at 30 km
CasesOf(sm, m) ==
    { <<sm, m>> }
    \cup (IF sm.boundary_depths # <<>> THEN { <<sm, LaterIterate(m)>> } ELSE {})
    \cup (IF sm.boundary_depths = <<R(30)>>
          THEN { <<WithRatios(sm, r), m>> : r \in RatioChoices } ELSE {})

JacobianCases ==
    UNION { UNION { CasesOf(sm, m) : m \in { setup_starting_model(sm, {}) } } :
            sm \in JacobianSetupModels }

InitJacobian ==
    /\ \E c \in JacobianCases : setup_model = c[1] /\ inversion_model = c[2]
    /\ output_dirs = {setup_model.id}
    /\ stdout = <<>>
    /\ previous_model = NoModel
    /\ n_calls = 1
    /\ raised = "None"
    /\ kernels = <<>>
    /\ G_MINEOS = NoMatrix
    /\ dm_dp_mat = NoMatrix
    /\ G_inversion_model = NoMatrix
    /\ ref_model = RefCard(setup_model.ref_card_csv_name)
    /\ mineos_card_model = NoCard
    /\ previous_card = NoCard
    /\ last_update = NoUpdate
    /\ output_files = {}
    /\ arange_rounding \in ArangeRoundings(setup_model)
    /\ NoConstraintsRead

NextJacobian == RunMineos \/ BuildJacobian

SpecJacobian == InitJacobian /\ [][NextJacobian]_vars

(* ---------------------------------------------------------------------- *)
(* define_models.convert_inversion_model_to_mineos_model                   *)
(* ---------------------------------------------------------------------- *)
\* a row of a card from its radius and a value for every other column
CardRow(radius, val(_)) ==
    [ radius |-> radius, rho |-> val("rho"), vpv |-> val("vpv"),
      vsv |-> val("vsv"), q_kappa |-> val("q_kappa"), q_mu |-> val("q_mu"),
      vph |-> val("vph"), vsh |-> val("vsh"), eta |-> val("eta") ]

ColumnValues(table, col) == AsArray([k \in 1..Len(table) |-> table[k][col]])
np_cumsum(xs) == AsArray([k \in 1..Len(xs) |-> SumTo(xs, k)])

\* the size (km) the model gives to the rounding error of that value; in
\* floats it is some 1e-10 km
RoundingError == Q(1, 1000)

\* np.arange(start, stop, step), step > 0: start + k * step for every k >= 0
\* with start + k * step < stop, and when rounding # 0 one more value, which
\* is stop give or take the rounding error
np_arange(start, stop, step, rounding) ==
    LET exact == Max(0, -FFloorDiv(FSub(start, stop), step))
        n == exact + (IF rounding = 0 THEN 0 ELSE 1)
    IN  [k \in 1..n |->
            IF k <= exact THEN FAdd(start, FMul(R(k - 1), step))
            ELSE FAdd(stop, FMul(R(rounding), RoundingError))]

\* lines 293-300: radius (km) of the new region, base first
card_radius(sm, radius_Earth, rounding) ==
    LET radius_model_top == FSub(radius_Earth, sm.depth_limits[1])
        radius_model_base == FSub(radius_Earth, sm.depth_limits[2])
        step == FDiv(sm.min_layer_thickness, R(3))
    IN  AsArray(Append(np_arange(radius_model_base, radius_model_top, step,
                                 rounding),
                       radius_model_top))

\* mutant: the Moho taken at the base node of the boundary layer
Moho_depth_at_base_node(model, sm) ==
    IF sm.Moho[1]
    THEN SumTo(model.thickness, At0(model.boundary_inds, sm.Moho[2]) + 2)
    ELSE sm.Moho[2]

\* lines 312-316
Moho_depth(model, sm) ==
    IF sm.Moho[1]
    THEN SumTo(model.thickness, At0(model.boundary_inds, sm.Moho[2]) + 1)
    ELSE sm.Moho[2]

\* lines 293-331: the rows of new_model
new_model_rows(model, sm, ref, rounding) ==
    LET radius_Earth == FMul(Last(ref).radius, Q(1, 1000))
        radius_km == card_radius(sm, radius_Earth, rounding)
        ref_radius == ColumnValues(ref, "radius")
        ref_rho == ColumnValues(ref, "rho")
        ref_q_mu == ColumnValues(ref, "q_mu")
        ref_q_kappa == ColumnValues(ref, "q_kappa")
        node_depths == np_cumsum(model.thickness)
        Moho_at == Moho_depth(model, sm)
        row(k) ==
            LET depth == FSub(radius_Earth, radius_km[k])
                radius == FMul(radius_km[k], R(1000))
                vsv == FMul(np_interp(depth, node_depths, model.vsv), R(1000))
                vpv == FMul(vsv, sm.vpv_vsv_ratio)
                rho == np_interp(radius, ref_radius, ref_rho)
                val(col) ==
                    CASE col = "vsv" -> vsv
                      [] col = "vsh" -> FDiv(vsv, sm.vsv_vsh_ratio)
                      [] col = "vpv" -> vpv
                      [] col = "vph" -> FDiv(vpv, sm.vpv_vph_ratio)
                      [] col = "eta" -> R(1)
                      [] col = "rho" ->
                            IF FLe(depth, Moho_at) /\ FLt(R(2900), rho)
                            THEN R(2900) ELSE rho
                      [] col = "q_mu" -> np_interp(radius, ref_radius, ref_q_mu)
                      [] col = "q_kappa" ->
                            np_interp(radius, ref_radius, ref_q_kappa)
            IN  CardRow(radius, val)
    IN  AsArray([k \in 1..Len(radius_km) |-> row(k)])

\* mutant: the band is a view of ref_model, the += writes through
ref_model_after_smoothing_in_place(ref, band, smoothed) ==
    [k \in 1..Len(ref) |->
        IF \E j \in 1..Len(band) : band[j] = k
        THEN smoothed[CHOOSE j \in 1..Len(band) : band[j] = k]
        ELSE ref[k]]

\* lines 379-382 and 405-408: the band is a .copy(); ref_model stays as read
ref_model_after_smoothing(ref, band, smoothed) == ref

\* mutant: the offset taken from the reference value of the row itself
smoothed_value_towards_edge(ref_value, new_value, ref_value_at_edge, fraction_new_model) ==
    FAdd(ref_value, FMul(FSub(new_value, ref_value), fraction_new_model))

\* lines 391-394 and 417-420: smoothed[col] += (new - ref at the edge) * fraction
smoothed_value(ref_value, new_value, ref_value_at_edge, fraction_new_model) ==
    FAdd(ref_value,
         FMul(FSub(new_value, ref_value_at_edge), fraction_new_model))

\* lines 373-397
smooth_to_ref_model_below(ref, new_model) ==
    LET smooth_z == R(100000)
        edge == new_model[1]
        base_of_smoothing == FSub(edge.radius, smooth_z)
        IsUntouched(k) == FLt(ref[k].radius, base_of_smoothing)
        IsBand(k) == FLe(base_of_smoothing, ref[k].radius)
                     /\ FLt(ref[k].radius, edge.radius)
        untouched == SortedSet({ k \in 1..Len(ref) : IsUntouched(k) })
        band == SortedSet({ k \in 1..Len(ref) : IsBand(k) })
        smoothed_row(k) ==
            LET fraction_new_model ==
                    FDiv(FSub(ref[k].radius, base_of_smoothing), smooth_z)
                val(col) ==
                    smoothed_value(ref[k][col], edge[col],
                                   np_interp(edge.radius,
                                             ColumnValues(ref, "radius"),
                                             ColumnValues(ref, col)),
                                   fraction_new_model)
            IN  CardRow(ref[k].radius, val)
        smoothed == [j \in 1..Len(band) |-> smoothed_row(band[j])]
    IN  [ value |-> [j \in 1..Len(untouched) |-> ref[untouched[j]]] \o smoothed,
          ref_model |-> ref_model_after_smoothing(ref, band, smoothed) ]

\* lines 399-423
smooth_to_ref_model_above(ref, new_model) ==
    LET smooth_z == R(100000)
        edge == Last(new_model)
        top_of_smoothing == FAdd(edge.radius, smooth_z)
        IsUntouched(k) == FLt(top_of_smoothing, ref[k].radius)
        IsBand(k) == FLt(edge.radius, ref[k].radius)
                     /\ FLe(ref[k].radius, top_of_smoothing)
        untouched == SortedSet({ k \in 1..Len(ref) : IsUntouched(k) })
        band == SortedSet({ k \in 1..Len(ref) : IsBand(k) })
        smoothed_row(k) ==
            LET fraction_new_model ==
                    FDiv(FSub(top_of_smoothing, ref[k].radius), smooth_z)
                val(col) ==
                    smoothed_value(ref[k][col], edge[col],
                                   np_interp(edge.radius,
                                             ColumnValues(ref, "radius"),
                                             ColumnValues(ref, col)),
                                   fraction_new_model)
            IN  CardRow(ref[k].radius, val)
        smoothed == [j \in 1..Len(band) |-> smoothed_row(band[j])]
    IN  [ value |-> smoothed \o [j \in 1..Len(untouched) |-> ref[untouched[j]]],
          ref_model |-> ref_model_after_smoothing(ref, band, smoothed) ]

\* lines 278-370: the card returned, the reference table after the call and
\* the files written; IndexError when Moho names a boundary the model lacks,
\* FileNotFoundError when setup_starting_model has not made output/<id>
card_of(model, sm, ref, dirs, new_model) ==
    LET below == smooth_to_ref_model_below(ref, new_model)
        above == smooth_to_ref_model_above(below.ref_model, new_model)
    IN  IF sm.id \notin dirs
        THEN [raised |-> "FileNotFoundError", value |-> NoCard,
              ref_model |-> above.ref_model, files |-> {}]
        ELSE [raised |-> "None",
              value |-> below.value \o new_model \o above.value,
              ref_model |-> above.ref_model,
              files |-> { <<sm.id, "csv">>, <<sm.id, "card">> }]

convert_inversion_model_to_mineos_model(model, sm, ref, dirs, rounding) ==
    IF sm.Moho[1] /\ sm.Moho[2] >= Len(model.boundary_inds)
    THEN [raised |-> "IndexError", value |-> NoCard, ref_model |-> ref,
          files |-> {}]
    ELSE LET rest(new_model) == card_of(model, sm, ref, dirs, new_model)
         IN  Once(new_model_rows(model, sm, ref, rounding), rest)

(* ---------------------------------------------------------------------- *)
(* State machine: an inversion run writing cards between solver updates    *)
(* ---------------------------------------------------------------------- *)
WithMoho(sm, Moho) == [sm EXCEPT !.Moho = Moho]

\* SetupModels whose cards are studied: a zero first layer (boundary at 8),
\* a zero-width boundary, a top below the surface, a grid step that does not
\* divide the depth range, a Moho given as a depth, a grid step that no float
\* holds exactly (12/5), a Moho naming a missing boundary
CardSetupModels ==
    { SetupModel("run1", << <<R(8), R(1), R(2), Q(17, 5), Q(19, 5)>>,
                            <<R(30), R(2), R(5), R(4), Q(9, 2)>> >>,
                 <<R(0), R(60)>>, R(6)),
      SetupModel("run1", << <<R(40), R(0), R(0), Q(21, 5), Q(22, 5)>> >>,
                 <<R(0), R(60)>>, R(6)),
      WithMoho(SetupModel("run1", << <<R(30), R(2), R(5), R(4), Q(9, 2)>> >>,
                          <<R(10), R(60)>>, R(6)), <<FALSE, R(20)>>),
      SetupModel("run1", << <<R(30), R(2), R(5), R(4), Q(9, 2)>> >>,
                 <<R(10), R(60)>>, R(7)),
      WithRatios(SetupModel("run1",
                            << <<R(30), R(2), R(5), R(4), Q(9, 2)>> >>,
                            <<R(0), R(60)>>, R(7)),
                 <<R(2), Q(7, 4), Q(5, 4)>>),
      WithMoho(SetupModel("run1", <<>>, <<R(10), R(60)>>, R(6)),
               <<FALSE, R(20)>>),
      WithMoho(SetupModel("run1", <<>>, <<R(0), R(60)>>, Q(36, 5)),
               <<FALSE, R(20)>>),
      SetupModel("run1", <<>>, <<R(0), R(60)>>, R(6)),
      WithMoho(SetupModel("run1", <<>>, <<R(10), R(100)>>, R(12)),
               <<FALSE, R(20)>>) }

\* what the solver may add to a velocity or to a thickness in one update
UpdateSteps == { Q(1, 10), Q(-1, 5) }

InitCard ==
    /\ setup_model \in CardSetupModels
    /\ \E m \in { setup_starting_model(setup_model, {}) } :
          inversion_model \in { m, LaterIterate(m) }
    /\ output_dirs = {setup_model.id}
    /\ stdout = <<>>
    /\ previous_model = NoModel
    /\ n_calls = 1
    /\ raised = "None"
    /\ kernels = <<>>
    /\ G_MINEOS = NoMatrix
    /\ dm_dp_mat = NoMatrix
    /\ G_inversion_model = NoMatrix
    /\ ref_model = RefCard(setup_model.ref_card_csv_name)
    /\ mineos_card_model = NoCard
    /\ previous_card = NoCard
    /\ last_update = NoUpdate
    /\ output_files = {}
    /\ arange_rounding \in ArangeRoundings(setup_model)
    /\ NoConstraintsRead

\* a call of convert_inversion_model_to_mineos_model(inversion_model,
\* setup_model)
ToCard ==
    /\ inversion_model # NoModel
    /\ mineos_card_model = NoCard /\ raised = "None"
    /\ \E out \in { convert_inversion_model_to_mineos_model(
                        inversion_model, setup_model, ref_model, output_dirs,
                        arange_rounding) } :
           /\ raised' = out.raised
           /\ mineos_card_model' = out.value
           /\ ref_model' = out.ref_model
           /\ output_files' = output_files \cup out.files
    /\ UNCHANGED <<setup_model, output_dirs, stdout, inversion_model,
                   previous_model, n_calls, kernels, G_MINEOS, dm_dp_mat,
                   G_inversion_model, previous_card, last_update,
                   arange_rounding, all_rfs, rfs>>

\* the model with d added to vsv[i] (index from 0)
PerturbVsv(m, i, d) ==
    [ vsv |-> [k \in 1..Len(m.vsv) |->
                  IF k = i + 1 THEN FAdd(m.vsv[k], d) ELSE m.vsv[k]],
      thickness |-> m.thickness,
      boundary_inds |-> m.boundary_inds ]

\* the model with boundary i moved down by d: t_i grows by d, the layer
\* under the boundary shrinks by d, the width and all other nodes stay
PerturbThickness(m, i, d) ==
    LET ib == At0(m.boundary_inds, i)
    IN  [ vsv |-> m.vsv,
          thickness |-> [k \in 1..Len(m.thickness) |->
                            IF k = ib + 1 THEN FAdd(m.thickness[k], d)
                            ELSE IF k = ib + 3 THEN FSub(m.thickness[k], d)
                            ELSE m.thickness[k]],
          boundary_inds |-> m.boundary_inds ]

\* the solver changes one velocity of the model the last card was made of
UpdateVsv ==
    /\ mineos_card_model # NoCard /\ last_update = NoUpdate
    /\ \E i \in 0..(Len(inversion_model.vsv) - 2), d \in UpdateSteps :
          /\ inversion_model' = PerturbVsv(inversion_model, i, d)
          /\ last_update' = [kind |-> "vsv", i |-> i, d |-> d]
    /\ previous_model' = inversion_model
    /\ previous_card' = mineos_card_model
    /\ mineos_card_model' = NoCard
    /\ UNCHANGED <<setup_model, output_dirs, stdout, n_calls, raised, kernels,
                   G_MINEOS, dm_dp_mat, G_inversion_model, ref_model,
                   output_files, arange_rounding, all_rfs, rfs>>

\* the solver moves one boundary of the model the last card was made of
UpdateThickness ==
    /\ mineos_card_model # NoCard /\ last_update = NoUpdate
    /\ \E i \in 0..(Len(inversion_model.boundary_inds) - 1),
          d \in UpdateSteps :
          /\ inversion_model' = PerturbThickness(inversion_model, i, d)
          /\ last_update' = [kind |-> "thickness", i |-> i, d |-> d]
    /\ previous_model' = inversion_model
    /\ previous_card' = mineos_card_model
    /\ mineos_card_model' = NoCard
    /\ UNCHANGED <<setup_model, output_dirs, stdout, n_calls, raised, kernels,
                   G_MINEOS, dm_dp_mat, G_inversion_model, ref_model,
                   output_files, arange_rounding, all_rfs, rfs>>

NextCard == ToCard \/ UpdateVsv \/ UpdateThickness

SpecCard == InitCard /\ [][NextCard]_vars

(* ---------------------------------------------------------------------- *)
(* State machine: one iteration, from the SetupModel to the Jacobian       *)
(* ---------------------------------------------------------------------- *)
InversionSetupModels ==
    { ScenarioModel,
      WithMoho(SetupModel("run1", << <<R(30), R(2), R(5), R(4), Q(9, 2)>> >>,
                          <<R(10), R(60)>>, R(6)), <<FALSE, R(20)>>) }

InitInversion ==
    /\ setup_model \in InversionSetupModels
    /\ InitCommon
    /\ NoConstraintsRead

NextInversion == Build \/ ToCard \/ RunMineos \/ BuildJacobian

SpecInversion == InitInversion /\ [][NextInversion]_vars

(* ---------------------------------------------------------------------- *)
(* State machine: a caller reading receiver-function constraints           *)
(* ---------------------------------------------------------------------- *)
Locations == { <<R(35), R(-110)>>, <<R(40), R(250)>>, <<R(38), R(-110)>> }

\* boundaries = (bnames, bwidths)
BoundaryRequests ==
    { << <<"Moho">>, <<R(5)>> >>,
      << <<"LAB">>, <<R(10)>> >>,
      << <<"Moho", "LAB">>, <<R(5), R(10)>> >>,
      << <<"Moho", "LAB">>, <<R(5), R(2)>> >> }

InitConstraints ==
    /\ setup_model = ScenarioModel
    /\ InitCommon
    /\ all_rfs \in ConstraintFiles
    /\ rfs = NotCalled

\* a call of _extract_rf_constraints(location, id, boundaries, vpvs)
ExtractRfConstraints ==
    /\ n_calls < MaxCalls
    /\ \E location \in Locations, boundaries \in BoundaryRequests,
          vpvs \in { Q(7, 4) } :
          \E out \in { _extract_rf_constraints(all_rfs, location,
                                               setup_model.id, boundaries,
                                               vpvs) } :
              /\ rfs' = [ called |-> TRUE, location |-> location,
                          boundaries |-> boundaries, vpvs |-> vpvs,
                          is_None |-> out.is_None, value |-> out.value ]
              /\ stdout' = stdout \o out.printed
    /\ n_calls' = n_calls + 1
    /\ UNCHANGED <<setup_model, output_dirs, inversion_model, previous_model,
                   raised, kernels, G_MINEOS, dm_dp_mat, G_inversion_model,
                   ref_model, mineos_card_model, previous_card, last_update,
                   output_files, arange_rounding, all_rfs>>

NextConstraints == ExtractRfConstraints

SpecConstraints == InitConstraints /\ [][NextConstraints]_vars

(* ---------------------------------------------------------------------- *)
(* Vocabulary of the properties                                            *)
(* ---------------------------------------------------------------------- *)
n_bounds == Len(setup_model.boundary_depths)
Built == n_calls > 0 /\ inversion_model # NoModel

\* depth of node k (Python index): sum(thickness[:k+1])
NodeDepth(m, k) == SumTo(m.thickness, k + 1)

PaddedTop(sm, i_b) == FSub(depth_top_layer(sm, i_b), padding(sm, i_b))
PaddedBase(sm, i_b) == FAdd(depth_base_layer(sm, i_b), padding(sm, i_b))

\* boundary i_b starts above the padded base of the boundary before it
Overlaps(sm, i_b) ==
    i_b >= 1 /\ FLt(PaddedTop(sm, i_b), PaddedBase(sm, i_b - 1))

Overlapping(sm) ==
    \E i_b \in 1..(Len(sm.boundary_depths) - 1) : Overlaps(sm, i_b)

ValidSetupModel(sm) ==
    LET n == Len(sm.boundary_depths)
    IN  /\ FLe(R(0), sm.depth_limits[1])
        /\ FLt(sm.depth_limits[1], sm.depth_limits[2])
        /\ FLt(R(0), sm.min_layer_thickness)
        /\ \A i_b \in 0..(n - 1) :
              /\ FLe(R(0), At0(sm.boundary_widths, i_b))
              /\ FLe(R(0), At0(sm.boundary_depth_uncertainty, i_b))
              /\ FLe(sm.depth_limits[1], PaddedTop(sm, i_b))
              /\ FLe(PaddedBase(sm, i_b), sm.depth_limits[2])
              /\ i_b >= 1 =>
                    /\ FLt(At0(sm.boundary_depths, i_b - 1),
                           At0(sm.boundary_depths, i_b))
                    /\ ~Overlaps(sm, i_b)

(* ---------------------------------------------------------------------- *)
(* Properties of setup_starting_model                                      *)
(* ---------------------------------------------------------------------- *)
\* C1 (as claimed): for every valid SetupModel, whatever depth_limits[0],
\* the built model has thickness[0] == 0.
C1_FirstThicknessZero ==
    (Built /\ ValidSetupModel(setup_model)) =>
        At0(inversion_model.thickness, 0) = R(0)

\* what the code does instead: thickness[0] is depth_limits[0]
C1_FirstThicknessIsTopLimit ==
    Built => At0(inversion_model.thickness, 0) = setup_model.depth_limits[1]

\* C2: for every valid SetupModel every entry of thickness is >= 0, so the
\* node depths are non-decreasing.
C2_ThicknessNonNegative ==
    (Built /\ ValidSetupModel(setup_model)) =>
        \A k \in 1..Len(inversion_model.thickness) :
            FLe(R(0), inversion_model.thickness[k])

C2_Witness ==
    /\ Built /\ ValidSetupModel(setup_model)
    /\ n_bounds = 2
    /\ Len(inversion_model.thickness) > 1 + 3 * 2 + 1 + 2

\* C3: thickness[boundary_inds[i] + 1] == boundary_widths[i] for every
\* boundary i.
C3_BoundaryWidthKept ==
    Built =>
        /\ Len(inversion_model.boundary_inds) = n_bounds
        /\ \A i \in 0..(n_bounds - 1) :
              At0(inversion_model.thickness,
                  At0(inversion_model.boundary_inds, i) + 1)
                = At0(setup_model.boundary_widths, i)

C3_Witness ==
    /\ Built /\ n_bounds = 2
    /\ At0(setup_model.boundary_widths, 0) # At0(setup_model.boundary_widths, 1)
    /\ At0(inversion_model.thickness, At0(inversion_model.boundary_inds, 1) + 1)
         = At0(setup_model.boundary_widths, 1)

\* C4: one boundary_inds entry per boundary, in configuration order; node
\* boundary_inds[i] carries boundary_vsv[2i], the next node boundary_vsv[2i+1].
C4_BoundaryVelocities ==
    Built =>
        /\ Len(inversion_model.boundary_inds) = n_bounds
        /\ Len(inversion_model.vsv) = Len(inversion_model.thickness)
        /\ \A i \in 0..(n_bounds - 1) :
              LET ib == At0(inversion_model.boundary_inds, i)
              IN  /\ At0(inversion_model.vsv, ib)
                       = At0(setup_model.boundary_vsv, 2 * i)
                  /\ At0(inversion_model.vsv, ib + 1)
                       = At0(setup_model.boundary_vsv, 2 * i + 1)
                  /\ i >= 1 => At0(inversion_model.boundary_inds, i - 1) < ib

C4_Witness ==
    /\ Built /\ setup_model = ScenarioModel
    /\ Len(inversion_model.boundary_inds) = 1
    /\ At0(inversion_model.vsv, At0(inversion_model.boundary_inds, 0)) = R(4)
    /\ At0(inversion_model.vsv, At0(inversion_model.boundary_inds, 0) + 1)
         = Q(9, 2)
    /\ At0(inversion_model.thickness, At0(inversion_model.boundary_inds, 0) + 1)
         = R(5)

C6_OverlapRaises ==
    (n_calls > 0 /\ Overlapping(setup_model)) =>
        (raised = "ModelConstructionError" /\ inversion_model = NoModel)

\* C7: two calls with the same SetupModel return the same vsv, thickness and
\* boundary_inds, whether or not the output directory already exists.
C7_BuildDeterministic ==
    n_calls >= 2 => previous_model = inversion_model

C7_Witness ==
    /\ n_calls = 2
    /\ Len(stdout) = 1
    /\ setup_model.id \in output_dirs
    /\ previous_model = inversion_model
    /\ inversion_model # NoModel

(* ---------------------------------------------------------------------- *)
(* Properties of _build_partial_derivatives_matrix                         *)
(* ---------------------------------------------------------------------- *)
RayleighOnly(ks) ==
    ks # <<>> /\ \A k \in 1..Len(ks) : ks[k].type = "Rayleigh"
DistinctPeriods(ks) == { ks[k].period : k \in 1..Len(ks) }
ObservationsOf(ks) ==
    { [period |-> ks[k].period, type |-> ks[k].type] : k \in 1..Len(ks) }
n_parameters ==
    Len(inversion_model.vsv) - 1 + Len(inversion_model.boundary_inds)
MatrixRows(a) == IF a.ndim = 1 THEN <<a.data>> ELSE a.data

\* C8 (as claimed): for a Rayleigh-only table the returned G is a matrix
\* with one row per distinct period and len(vsv) - 1 + len(boundary_inds)
\* columns.
C8_JacobianShape ==
    (G_inversion_model # NoMatrix /\ RayleighOnly(kernels)) =>
        /\ G_inversion_model.ndim = 2
        /\ Len(G_inversion_model.data) = Cardinality(DistinctPeriods(kernels))
        /\ \A r \in 1..Len(G_inversion_model.data) :
              Len(G_inversion_model.data[r]) = n_parameters

\* what the code does: the claimed shape from two periods on, a 1-D array of
\* len(vsv) - 1 + len(boundary_inds) entries for a single period
C8_ShapeByPeriodCount ==
    (G_inversion_model # NoMatrix /\ RayleighOnly(kernels)) =>
        IF Cardinality(DistinctPeriods(kernels)) = 1
        THEN /\ G_inversion_model.ndim = 1
             /\ Len(G_inversion_model.data) = n_parameters
        ELSE /\ G_inversion_model.ndim = 2
             /\ Len(G_inversion_model.data)
                  = Cardinality(DistinctPeriods(kernels))
             /\ \A r \in 1..Len(G_inversion_model.data) :
                   Len(G_inversion_model.data[r]) = n_parameters

\* the kernel values of one observation (period and wave type), table order
RECURSIVE ObservationColumn(_, _, _)
ObservationColumn(ks, o, col) ==
    IF ks = <<>> THEN <<>>
    ELSE (IF ks[1].period = o.period /\ ks[1].type = o.type
          THEN <<ks[1][col]>> ELSE <<>>)
         \o ObservationColumn(Tail(ks), o, col)

\* the row the documentation gives an observation
DocumentedRow(ks, o) ==
    LET n == Len(ObservationColumn(ks, o, "vsv"))
    IN  IF o.type = "Rayleigh"
        THEN ObservationColumn(ks, o, "vsv") \o Zeros(n)
             \o ObservationColumn(ks, o, "vpv")
             \o ObservationColumn(ks, o, "vph")
             \o ObservationColumn(ks, o, "eta")
        ELSE ObservationColumn(ks, o, "vsv")
             \o ObservationColumn(ks, o, "vsh")
             \o Zeros(n) \o Zeros(n) \o Zeros(n)

\* C9 (as claimed): G_MINEOS has one row per (period, wave type) pair of the
\* table, and each row is built from its own wave type: Vsh block zero for
\* Rayleigh, Vpv/Vph/Eta blocks zero for Love, the other blocks that
\* observation's kernels; also for tables holding both wave types.
C9_RowsUseOwnWaveType ==
    G_MINEOS # NoMatrix =>
        LET rows == MatrixRows(G_MINEOS)
        IN  /\ Len(rows) = Cardinality(ObservationsOf(kernels))
            /\ { rows[k] : k \in 1..Len(rows) }
                 = { DocumentedRow(kernels, o) : o \in ObservationsOf(kernels) }

\* what the code does: the claim holds for tables of a single wave type
C9_SingleWaveTypeRows ==
    (G_MINEOS # NoMatrix
        /\ \A k \in 1..Len(kernels) : kernels[k].type = kernels[1].type) =>
        LET rows == MatrixRows(G_MINEOS)
        IN  /\ Len(rows) = Cardinality(ObservationsOf(kernels))
            /\ { rows[k] : k \in 1..Len(rows) }
                 = { DocumentedRow(kernels, o) : o \in ObservationsOf(kernels) }

\* dm/ds as returned: the Vsv block of dm_dp_mat, columns 0 .. len(vsv) - 2
CardDepths == kernel_depths(kernels)
dm_ds_entry(k, i) == dm_dp_mat.data[k][i + 1]
y(i) == NodeDepth(inversion_model, i)

\* the two ranges of the claim and the value it gives in each
InShallowerRange(k, i) ==
    i >= 1 /\ FLt(y(i - 1), CardDepths[k]) /\ FLe(CardDepths[k], y(i))
InDeeperRange(k, i) ==
    FLe(y(i), CardDepths[k]) /\ FLt(CardDepths[k], y(i + 1))

PiecewiseLinearSensitivity(k, i) ==
    /\ InShallowerRange(k, i) =>
          dm_ds_entry(k, i) = FDiv(FSub(CardDepths[k], y(i - 1)),
                                   At0(inversion_model.thickness, i))
    /\ InDeeperRange(k, i) =>
          dm_ds_entry(k, i)
            = FSub(R(1), FDiv(FSub(CardDepths[k], y(i)),
                              At0(inversion_model.thickness, i + 1)))
    /\ (~InShallowerRange(k, i) /\ ~InDeeperRange(k, i)) =>
          dm_ds_entry(k, i) = R(0)

dm_dt_entry(k, i) == dm_dp_mat.data[k][Len(inversion_model.vsv) - 1 + i + 1]
s(i) == At0(inversion_model.vsv, i)

\* the three ranges of the claim around boundary i
AboveBoundary(k, i) ==
    LET ib == At0(inversion_model.boundary_inds, i)
    IN  FLt(y(ib - 1), CardDepths[k]) /\ FLt(CardDepths[k], y(ib))
InsideBoundary(k, i) ==
    LET ib == At0(inversion_model.boundary_inds, i)
    IN  FLe(y(ib), CardDepths[k]) /\ FLt(CardDepths[k], y(ib + 1))
BelowBoundary(k, i) ==
    LET ib == At0(inversion_model.boundary_inds, i)
    IN  FLe(y(ib + 1), CardDepths[k]) /\ FLt(CardDepths[k], y(ib + 2))

\* C11: with ib = boundary_inds[i], t_i = thickness[ib], w_i = thickness[ib+1],
\* dm/dt[z, i] is -(s_ib - s_{ib-1})(z - y_{ib-1}) / t_i^2 on (y_{ib-1}, y_ib),
\* the constant -(s_{ib+1} - s_ib) / w_i on [y_ib, y_{ib+1}),
\* (s_{ib+2} - s_{ib+1})(z - y_{ib+2}) / (t_i - (y_{ib+2} - y_{ib-1} - w_i))^2
\* on [y_{ib+1}, y_{ib+2}), and 0 outside (y_{ib-1}, y_{ib+2}); the three
\* ranges are pairwise disjoint.
C11_dm_dt ==
    dm_dp_mat # NoMatrix =>
        \A k \in 1..Len(CardDepths) :
            \A i \in 0..(Len(inversion_model.boundary_inds) - 1) :
                LET ib == At0(inversion_model.boundary_inds, i)
                    t_i == At0(inversion_model.thickness, ib)
                    w_i == At0(inversion_model.thickness, ib + 1)
                    z == CardDepths[k]
                    rest == FSub(t_i, FSub(FSub(y(ib + 2), y(ib - 1)), w_i))
                IN  /\ AboveBoundary(k, i) =>
                          dm_dt_entry(k, i)
                            = FNeg(FDiv(FMul(FSub(s(ib), s(ib - 1)),
                                             FSub(z, y(ib - 1))),
                                        FMul(t_i, t_i)))
                    /\ InsideBoundary(k, i) =>
                          dm_dt_entry(k, i)
                            = FNeg(FDiv(FSub(s(ib + 1), s(ib)), w_i))
                    /\ BelowBoundary(k, i) =>
                          dm_dt_entry(k, i)
                            = FDiv(FMul(FSub(s(ib + 2), s(ib + 1)),
                                        FSub(z, y(ib + 2))),
                                   FMul(rest, rest))
                    /\ ~(FLt(y(ib - 1), z) /\ FLt(z, y(ib + 2))) =>
                          dm_dt_entry(k, i) = R(0)
                    /\ ~(AboveBoundary(k, i) /\ InsideBoundary(k, i))
                    /\ ~(InsideBoundary(k, i) /\ BelowBoundary(k, i))
                    /\ ~(AboveBoundary(k, i) /\ BelowBoundary(k, i))

\* a boundary with a card depth strictly above it, one inside it and one
\* below it, each with a sensitivity different from zero
C11_Witness ==
    /\ dm_dp_mat # NoMatrix
    /\ \E i \in 0..(Len(inversion_model.boundary_inds) - 1) :
          /\ \E k \in 1..Len(CardDepths) :
                AboveBoundary(k, i) /\ dm_dt_entry(k, i) # R(0)
          /\ \E k \in 1..Len(CardDepths) :
                InsideBoundary(k, i) /\ dm_dt_entry(k, i) # R(0)
          /\ \E k \in 1..Len(CardDepths) :
                BelowBoundary(k, i) /\ dm_dt_entry(k, i) # R(0)

\* the five blocks of dm/dp: block b holds rows (b-1)*n+1 .. b*n for the n
\* card depths
n_card_depths == Len(CardDepths)
BlockEntry(b, k, c) == dm_dp_mat.data[(b - 1) * n_card_depths + k][c]

\* C12: dm/dp is the vertical stack of five equally sized blocks
\* [Vsv, Vsh, Vpv, Vph, Eta]; entry by entry Vsh = Vsv / vsv_vsh_ratio,
\* Vpv = Vsv * vpv_vsv_ratio, Vph = Vpv / vpv_vph_ratio and Eta = 0; with
\* vsv_vsh_ratio = 2 every Vsh entry is exactly half the Vsv entry.
C12_ScaledBlocks ==
    dm_dp_mat # NoMatrix =>
        /\ Len(dm_dp_mat.data) = 5 * n_card_depths
        /\ \A r \in 1..Len(dm_dp_mat.data) :
              Len(dm_dp_mat.data[r]) = n_parameters
        /\ \A k \in 1..n_card_depths : \A c \in 1..n_parameters :
              /\ BlockEntry(2, k, c)
                   = FDiv(BlockEntry(1, k, c), setup_model.vsv_vsh_ratio)
              /\ BlockEntry(3, k, c)
                   = FMul(BlockEntry(1, k, c), setup_model.vpv_vsv_ratio)
              /\ BlockEntry(4, k, c)
                   = FDiv(BlockEntry(3, k, c), setup_model.vpv_vph_ratio)
              /\ BlockEntry(5, k, c) = R(0)
              /\ setup_model.vsv_vsh_ratio = R(2) =>
                    FAdd(BlockEntry(2, k, c), BlockEntry(2, k, c))
                      = BlockEntry(1, k, c)

\* vsv_vsh_ratio = 2 and vpv_vph_ratio # 1, with a velocity column and a
\* thickness column that are not zero
C12_Witness ==
    /\ dm_dp_mat # NoMatrix
    /\ setup_model.vsv_vsh_ratio = R(2)
    /\ setup_model.vpv_vph_ratio # R(1)
    /\ \E k \in 1..n_card_depths :
          \E c \in 1..(Len(inversion_model.vsv) - 1) :
              /\ BlockEntry(1, k, c) # R(0)
              /\ BlockEntry(2, k, c) = FMul(BlockEntry(1, k, c), Q(1, 2))
              /\ BlockEntry(4, k, c) # BlockEntry(3, k, c)
    /\ \E k \in 1..n_card_depths :
          /\ dm_dt_entry(k, 0) # R(0)
          /\ BlockEntry(2, k, n_parameters) = FMul(dm_dt_entry(k, 0), Q(1, 2))

\* the periods of the table, smallest first, and the wave type of the rows
\* of a period
PeriodsAscending == SortedSet(DistinctPeriods(kernels))
TypesOfPeriod(p) == { kernels[k].type : k \in { j \in 1..Len(kernels) :
                                                 kernels[j].period = p } }

\* sum over the card depths of (K_vsv + K_vsh / vsv_vsh_ratio
\* + K_vpv * vpv_vsv_ratio + K_vph * vpv_vsv_ratio / vpv_vph_ratio) * dVsv/dp,
\* the kernels of period p zeroed as wave type `type` asks
ChainRuleEntry(p, type, c) ==
    LET K(col) == KernelColumn(kernels, p, col)
        n == Len(K("vsv"))
        combined ==
            [z \in 1..n |->
                IF type = "Love"
                THEN FAdd(K("vsv")[z],
                          FDiv(K("vsh")[z], setup_model.vsv_vsh_ratio))
                ELSE FAdd(K("vsv")[z],
                          FAdd(FMul(K("vpv")[z], setup_model.vpv_vsv_ratio),
                               FDiv(FMul(K("vph")[z], setup_model.vpv_vsv_ratio),
                                    setup_model.vpv_vph_ratio)))]
    IN  Dot(combined, [z \in 1..n |-> BlockEntry(1, z, c)])

\* C13 (as claimed): row k of G belongs to the k-th smallest period of the
\* table, column c to parameter c, and G[k, c] is the sum over card depths of
\* the combined kernel of that row, zeroed for the row's own wave type, times
\* dVsv/dp[z, c].
C13_ProductOfOwnWaveType ==
    G_inversion_model # NoMatrix =>
        LET rows == MatrixRows(G_inversion_model)
        IN  /\ Len(rows) = Len(PeriodsAscending)
            /\ \A k \in 1..Len(rows) :
                  /\ Len(rows[k]) = n_parameters
                  /\ \A type \in TypesOfPeriod(PeriodsAscending[k]) :
                        \A c \in 1..n_parameters :
                            rows[k][c]
                              = ChainRuleEntry(PeriodsAscending[k], type, c)

\* what the code does: the same product, every row zeroed for the wave type
\* of the first row of the table
C13_ProductOfFirstRowType ==
    G_inversion_model # NoMatrix =>
        LET rows == MatrixRows(G_inversion_model)
        IN  /\ Len(rows) = Len(PeriodsAscending)
            /\ \A k \in 1..Len(rows) :
                  /\ Len(rows[k]) = n_parameters
                  /\ \A c \in 1..n_parameters :
                        rows[k][c]
                          = ChainRuleEntry(PeriodsAscending[k],
                                           kernels[1].type, c)

\* _build_partial_derivatives_matrix has been called and has returned or raised
JacobianCalled == raised # "None" \/ G_inversion_model # NoMatrix

\* a boundary whose overlying layer or whose own layer has zero thickness
DegenerateBoundary(m) ==
    \E i \in 0..(Len(m.boundary_inds) - 1) :
        \/ At0(m.thickness, At0(m.boundary_inds, i)) = R(0)
        \/ At0(m.thickness, At0(m.boundary_inds, i) + 1) = R(0)

UsableTable(ks) ==
    ks # <<>> /\ \A k \in 1..Len(ks) : ks[k].type \in WaveTypes

\* C14 (as claimed): the call signals NumericalDegeneracyError, and returns no
\* matrix, whenever some boundary has t_i = 0 or w_i = 0.
C14_DegenerateRaises ==
    (JacobianCalled /\ UsableTable(kernels) /\ DegenerateBoundary(inversion_model))
        => (raised = "NumericalDegeneracyError" /\ G_inversion_model = NoMatrix)

\* what the code does: nothing is raised for a boundary of zero width; no
\* card depth lies in the empty range [y_ib, y_ib+1), nothing is divided by
\* w_i and every entry of dm/dp is finite
C14_ZeroWidthReturnsFiniteMatrix ==
    (JacobianCalled /\ UsableTable(kernels) /\ DegenerateBoundary(inversion_model)
        /\ Cardinality(ObservationsOf(kernels))
              = Cardinality(DistinctPeriods(kernels)))
        => /\ raised = "None"
           /\ G_inversion_model # NoMatrix
           /\ \A r \in 1..Len(dm_dp_mat.data) :
                 \A c \in 1..Len(dm_dp_mat.data[r]) :
                     IsFinite(dm_dp_mat.data[r][c])

\* C15 (as claimed): the call signals MissingDataError, and returns no matrix,
\* when the table has no rows or carries a wave type other than Rayleigh and
\* Love.
C15_MissingDataRaises ==
    (JacobianCalled /\ ~UsableTable(kernels))
        => (raised = "MissingDataError" /\ G_inversion_model = NoMatrix)

\* what the code does: IndexError for a table without rows,
\* UnboundLocalError when the first row has another wave type, and a matrix
\* when only later rows have
C15_OnlyFirstRowTypeIsLooked ==
    (JacobianCalled /\ ~UsableTable(kernels)) =>
        IF kernels = <<>>
        THEN raised = "IndexError" /\ G_inversion_model = NoMatrix
        ELSE IF kernels[1].type \notin WaveTypes
        THEN raised = "UnboundLocalError" /\ G_inversion_model = NoMatrix
        ELSE raised = "None" /\ G_inversion_model # NoMatrix

(* ---------------------------------------------------------------------- *)
(* Properties of convert_inversion_model_to_mineos_model                   *)
(* ---------------------------------------------------------------------- *)
\* depth (km) of every row of a card
CardDepthsOf(card) ==
    LET radius_Earth == FMul(Last(ref_model).radius, Q(1, 1000))
    IN  AsArray([k \in 1..Len(card) |->
                    FSub(radius_Earth, FMul(card[k].radius, Q(1, 1000)))])

\* the card of the model before the update and the card of the model after it
CardsOfUpdate(kind) ==
    /\ last_update.kind = kind
    /\ previous_card # NoCard
    /\ mineos_card_model # NoCard

\* change of the card's Vsv (m/s) at row k over the update
VsvChange(k) == FSub(mineos_card_model[k].vsv, previous_card[k].vsv)

\* z is the depth of two nodes of the model at once (a layer of thickness 0)
OnZeroLayer(m, z) ==
    \E j \in 1..(Len(m.thickness) - 1) :
        SumTo(m.thickness, j) = z /\ m.thickness[j + 1] = R(0)

\* C16 (as claimed): after d is added to vsv[i] alone, the card's Vsv changes
\* at every row, the rows of the splice bands included, by d * dm/ds[z, i]
\* (km/s to m/s), dm/ds taken at the card's depths.
C16_FiniteDifferenceEverywhere ==
    CardsOfUpdate("vsv") =>
        LET depth == CardDepthsOf(previous_card)
            dm_ds == _calculate_dm_ds(previous_model, depth)
        IN  \A k \in 1..Len(depth) :
                VsvChange(k)
                  = FMul(FMul(last_update.d, R(1000)),
                         dm_ds[k][last_update.i + 1])

\* what holds: the same equality at the rows not shallower than
\* depth_limits[0] that do not sit on a layer of thickness 0
C16_FiniteDifferenceInNewRegion ==
    CardsOfUpdate("vsv") =>
        LET depth == CardDepthsOf(previous_card)
            dm_ds == _calculate_dm_ds(previous_model, depth)
        IN  \A k \in 1..Len(depth) :
                (FLe(setup_model.depth_limits[1], depth[k])
                 /\ ~OnZeroLayer(previous_model, depth[k])) =>
                    VsvChange(k)
                      = FMul(FMul(last_update.d, R(1000)),
                             dm_ds[k][last_update.i + 1])

\* the row of the reference model above the new region moves with vsv[0],
\* where dm/ds is 0
C16_SpliceBandMoves ==
    /\ CardsOfUpdate("vsv")
    /\ \E k \in 1..Len(previous_card) :
          /\ FLt(CardDepthsOf(previous_card)[k], setup_model.depth_limits[1])
          /\ VsvChange(k) # R(0)
          /\ _calculate_dm_ds(previous_model, CardDepthsOf(previous_card))
                [k][last_update.i + 1] = R(0)

\* the sign of z - y_j is the same in models a and b for every node j
SameSideOfEveryBreakpoint(a, b, z) ==
    \A j \in 1..Len(a.thickness) :
        /\ FLt(z, SumTo(a.thickness, j)) <=> FLt(z, SumTo(b.thickness, j))
        /\ FLt(SumTo(a.thickness, j), z) <=> FLt(SumTo(b.thickness, j), z)

\* C17: when t_i grows by d and the layer under boundary i shrinks by d, the
\* card's Vsv at a depth z that stays on the same side of every breakpoint
\* changes by d * dm/dt[z, i] to first order in d: exactly d * dm/dt[z, i]
\* inside the boundary layer, d * dm/dt[z, i] * t_i / (t_i + d) in the layer
\* above it, d * dm/dt[z, i] * T / (T - d) in the layer of thickness T below
\* it, and 0 = dm/dt[z, i] elsewhere (km/s to m/s).
C17_dm_dt_IsPartialDerivative ==
    CardsOfUpdate("thickness") =>
        LET m == previous_model
            depth == CardDepthsOf(previous_card)
            dm_dt == _calculate_dm_dt(m, depth)
            d == last_update.d
            ib == At0(m.boundary_inds, last_update.i)
            t_i == At0(m.thickness, ib)
            T == At0(m.thickness, ib + 2)
            y_ib_minus_1 == SumTo(m.thickness, ib)
            y_ib == SumTo(m.thickness, ib + 1)
            y_ib_plus_1 == SumTo(m.thickness, ib + 2)
            first_order(k) ==
                FMul(FMul(d, R(1000)), dm_dt[k][last_update.i + 1])
        IN  \A k \in 1..Len(depth) :
                SameSideOfEveryBreakpoint(m, inversion_model, depth[k]) =>
                    VsvChange(k)
                      = IF FLt(y_ib_minus_1, depth[k]) /\ FLt(depth[k], y_ib)
                        THEN FMul(first_order(k), FDiv(t_i, FAdd(t_i, d)))
                        ELSE IF FLt(y_ib_plus_1, depth[k])
                        THEN FMul(first_order(k), FDiv(T, FSub(T, d)))
                        ELSE first_order(k)

\* a boundary has moved and the card has changed at a depth of the layer
\* above it, at one inside it and at one of the layer below it, each depth on
\* the same side of every breakpoint as before
C17_Witness ==
    /\ CardsOfUpdate("thickness")
    /\ LET m == previous_model
           depth == CardDepthsOf(previous_card)
           ib == At0(m.boundary_inds, last_update.i)
           Moved(lo, hi) ==
               \E k \in 1..Len(depth) :
                   /\ FLt(SumTo(m.thickness, lo), depth[k])
                   /\ FLt(depth[k], SumTo(m.thickness, hi))
                   /\ SameSideOfEveryBreakpoint(m, inversion_model, depth[k])
                   /\ VsvChange(k) # R(0)
       IN  Moved(ib, ib + 1) /\ Moved(ib + 1, ib + 2) /\ Moved(ib + 2, ib + 3)

radius_Earth_km == FMul(Last(ref_model).radius, Q(1, 1000))
radius_model_top_m ==
    FMul(FSub(radius_Earth_km, setup_model.depth_limits[1]), R(1000))
radius_model_base_m ==
    FMul(FSub(radius_Earth_km, setup_model.depth_limits[2]), R(1000))
step_m == FMul(FDiv(setup_model.min_layer_thickness, R(3)), R(1000))
RoundingError_m == FMul(RoundingError, R(1000))
InNewRegionRadii(row) ==
    /\ FLe(radius_model_base_m, row.radius)
    /\ FLe(row.radius, FAdd(radius_model_top_m, RoundingError_m))
NewRegion == SelectSeq(mineos_card_model, InNewRegionRadii)
Spacing(g, j) == FSub(g[j + 1].radius, g[j].radius)

\* C19 (as claimed): the radius grid of the new region starts at the base
\* radius, ends at the top radius, is strictly increasing, and every spacing
\* is min_layer_thickness / 3 except possibly the last, which is greater than
\* 0 and at most min_layer_thickness / 3.
C19_RadiusGrid ==
    mineos_card_model # NoCard =>
        LET g == NewRegion
            n == Len(g)
        IN  /\ g[1].radius = radius_model_base_m
            /\ g[n].radius = radius_model_top_m
            /\ \A j \in 1..(n - 1) : FLt(g[j].radius, g[j + 1].radius)
            /\ \A j \in 1..(n - 2) : Spacing(g, j) = step_m
            /\ FLt(R(0), Spacing(g, n - 1))
            /\ FLe(Spacing(g, n - 1), step_m)

\* what holds: the same grid when np.arange counts no value next to the top
\* (always so when the step is exact in floats), and otherwise the grid with
\* one more row, a rounding error under or over the top radius, before the
\* row of the top radius
C19_RadiusGridUpToRounding ==
    mineos_card_model # NoCard =>
        LET g == NewRegion
            n == Len(g) - (IF arange_rounding = 0 THEN 0 ELSE 1)
        IN  /\ g[1].radius = radius_model_base_m
            /\ Last(g).radius = radius_model_top_m
            /\ \A j \in 1..(n - 2) : Spacing(g, j) = step_m
            /\ arange_rounding = 0 =>
                    /\ FLt(R(0), Spacing(g, n - 1))
                    /\ FLe(Spacing(g, n - 1), step_m)
            /\ arange_rounding # 0 =>
                    /\ Spacing(g, n - 1) =
                           FAdd(step_m, FMul(R(arange_rounding),
                                             RoundingError_m))
                    /\ Spacing(g, n) =
                           FMul(R(-arange_rounding), RoundingError_m)
            /\ ExactFloat(FDiv(setup_model.min_layer_thickness, R(3)))
                  => arange_rounding = 0

\* the Moho depth as the claim gives it
ClaimedMohoDepth ==
    IF setup_model.Moho[1]
    THEN y(At0(inversion_model.boundary_inds, setup_model.Moho[2]))
    ELSE setup_model.Moho[2]

\* density of the reference model interpolated at the radius of a row
ReferenceDensity(row) ==
    np_interp(row.radius, ColumnValues(ref_model, "radius"),
              ColumnValues(ref_model, "rho"))
DepthOfRow(row) == FSub(radius_Earth_km, FMul(row.radius, Q(1, 1000)))

\* C20: in every row of the new region the density is 2900 when the depth of
\* the row is <= the Moho depth and the density interpolated from the
\* reference model exceeds 2900, and the interpolated density otherwise; the
\* Moho depth is the depth of node boundary_inds[k] for Moho = (True, k) and
\* d for Moho = (False, d).
C20_DensityOverride ==
    mineos_card_model # NoCard =>
        LET g == NewRegion
            Moho_at == ClaimedMohoDepth
        IN  \A j \in 1..Len(g) :
                g[j].rho
                  = IF FLe(DepthOfRow(g[j]), Moho_at)
                       /\ FLt(R(2900), ReferenceDensity(g[j]))
                    THEN R(2900)
                    ELSE ReferenceDensity(g[j])

\* a card with a row above the Moho set to 2900, a row above the Moho left at
\* a reference density below 2900, and a row under the Moho left at a
\* reference density over 2900; the Moho is a node of the model here
C20_Witness ==
    /\ mineos_card_model # NoCard
    /\ setup_model.Moho[1]
    /\ LET g == NewRegion
           Moho_at == ClaimedMohoDepth
       IN  /\ \E j \in 1..Len(g) :
                 /\ FLe(DepthOfRow(g[j]), Moho_at)
                 /\ FLt(R(2900), ReferenceDensity(g[j]))
                 /\ g[j].rho = R(2900)
           /\ \E j \in 1..Len(g) :
                 /\ FLe(DepthOfRow(g[j]), Moho_at)
                 /\ g[j].rho = ReferenceDensity(g[j])
                 /\ FLt(g[j].rho, R(2900))
           /\ \E j \in 1..Len(g) :
                 /\ FLt(Moho_at, DepthOfRow(g[j]))
                 /\ g[j].rho = ReferenceDensity(g[j])
                 /\ FLt(R(2900), g[j].rho)

\* the same three rows when the Moho is a configured depth
C20_WitnessConfiguredDepth ==
    /\ mineos_card_model # NoCard
    /\ ~setup_model.Moho[1]
    /\ LET g == NewRegion
           Moho_at == ClaimedMohoDepth
       IN  /\ \E j \in 1..Len(g) :
                 DepthOfRow(g[j]) = Moho_at /\ g[j].rho = R(2900)
                 /\ FLt(R(2900), ReferenceDensity(g[j]))
           /\ \E j \in 1..Len(g) :
                 /\ FLt(Moho_at, DepthOfRow(g[j]))
                 /\ FLt(R(2900), g[j].rho)

\* the rows of a table in the 100 km band under the base radius of the new
\* region, and in the 100 km band over its top radius
smooth_z_m == R(100000)
InBandBelow(row) ==
    /\ FLe(FSub(radius_model_base_m, smooth_z_m), row.radius)
    /\ FLt(row.radius, radius_model_base_m)
InBandAbove(row) ==
    /\ FLt(radius_model_top_m, row.radius)
    /\ FLe(row.radius, FAdd(radius_model_top_m, smooth_z_m))
    /\ ~InNewRegionRadii(row)
FractionBelow(row) ==
    FDiv(FSub(row.radius, FSub(radius_model_base_m, smooth_z_m)), smooth_z_m)
FractionAbove(row) ==
    FDiv(FSub(FAdd(radius_model_top_m, smooth_z_m), row.radius), smooth_z_m)
ReferenceAt(radius, col) ==
    np_interp(radius, ColumnValues(ref_model, "radius"),
              ColumnValues(ref_model, col))
\* card row `row` is reference row `ref_row` moved towards the row `edge` of
\* the new region by the fraction `fraction`
IsBlend(row, ref_row, edge, fraction) ==
    /\ row.radius = ref_row.radius
    /\ FLe(R(0), fraction) /\ FLt(fraction, R(1))
    /\ \A c \in 1..Len(Columns) :
          LET col == Columns[c]
          IN  row[col] =
                FAdd(ref_row[col],
                     FMul(FSub(edge[col], ReferenceAt(edge.radius, col)),
                          fraction))

C21_WitnessFarEnd ==
    /\ mineos_card_model # NoCard
    /\ \E k \in 1..Len(mineos_card_model) :
          /\ InBandBelow(mineos_card_model[k])
          /\ FractionBelow(mineos_card_model[k]) = R(0)
          /\ \E r \in 1..Len(ref_model) :
                ref_model[r] = mineos_card_model[k]

\* rows more than 100 km under the base radius of the new region, more than
\* 100 km over its top radius, and between the two radii
FarBelow(row) == FLt(row.radius, FSub(radius_model_base_m, smooth_z_m))
FarAbove(row) == FLt(FAdd(radius_model_top_m, smooth_z_m), row.radius)
BetweenBaseAndTop(row) ==
    /\ FLe(radius_model_base_m, row.radius)
    /\ FLe(row.radius, radius_model_top_m)
ReferenceRowsKept ==
    /\ SelectSeq(mineos_card_model, FarBelow) = SelectSeq(ref_model, FarBelow)
    /\ SelectSeq(mineos_card_model, FarAbove) = SelectSeq(ref_model, FarAbove)
\* the card's rows between the two radii are the rows of the radius grid of
\* the new region, one each, and none besides
ReferenceRowsReplaced ==
    LET grid == card_radius(setup_model, radius_Earth_km, arange_rounding)
        on_grid == { k \in 1..Len(grid) :
                       BetweenBaseAndTop([radius |-> FMul(grid[k], R(1000))]) }
    IN  Len(SelectSeq(mineos_card_model, BetweenBaseAndTop))
           = Cardinality(on_grid)
InRadiusOrder(k) ==
    FLe(mineos_card_model[k].radius, mineos_card_model[k + 1].radius)

\* C22 (as claimed): the reference rows more than 100 km under the base
\* radius or over the top radius of the new region are in the card unchanged,
\* no reference row with a radius in [base radius, top radius] is in the card,
\* and the radii of the card never decrease from one row to the next.
C22_FrameAndOrder ==
    mineos_card_model # NoCard =>
        /\ ReferenceRowsKept
        /\ ReferenceRowsReplaced
        /\ \A k \in 1..(Len(mineos_card_model) - 1) : InRadiusOrder(k)

\* what holds: the same, and the card is the kept rows, the two bands and the
\* new region and nothing else, but the radius steps back from the row before
\* the top radius of the new region to the top radius when np.arange counts a
\* value that the rounding has put over the top radius
C22_FrameAndOrderUpToRounding ==
    mineos_card_model # NoCard =>
        /\ ReferenceRowsKept
        /\ ReferenceRowsReplaced
        /\ Len(mineos_card_model)
              = Len(SelectSeq(ref_model, FarBelow))
                + Len(SelectSeq(ref_model, InBandBelow)) + Len(NewRegion)
                + Len(SelectSeq(ref_model, InBandAbove))
                + Len(SelectSeq(ref_model, FarAbove))
        /\ \A k \in 1..(Len(mineos_card_model) - 1) :
              ~InRadiusOrder(k) <=>
                  /\ arange_rounding = 1
                  /\ mineos_card_model[k + 1].radius = radius_model_top_m
                  /\ mineos_card_model[k].radius
                        = FAdd(radius_model_top_m, RoundingError_m)

\* a card that keeps reference rows on both sides and drops reference rows
\* between the base and the top radius
C22_Witness ==
    /\ mineos_card_model # NoCard
    /\ \E k \in 1..Len(mineos_card_model) : FarBelow(mineos_card_model[k])
    /\ \E r \in 1..Len(ref_model) :
          /\ FLt(radius_model_base_m, ref_model[r].radius)
          /\ FLt(ref_model[r].radius, radius_model_top_m)
    /\ \E k \in 1..Len(mineos_card_model) : InBandAbove(mineos_card_model[k])

\* the filler layers above boundary i_b (i_b = n_bounds: above the base of the
\* model) in the built model: the node they start from, the depth they fill
\* and their number
NodeBeforeFillers(i_b) ==
    IF i_b = 0 THEN 0 ELSE At0(inversion_model.boundary_inds, i_b - 1) + 2
FillersEndAt(i_b) ==
    IF i_b = n_bounds THEN setup_model.depth_limits[2]
    ELSE PaddedTop(setup_model, i_b)
FillerGap(i_b) ==
    FSub(FillersEndAt(i_b), NodeDepth(inversion_model, NodeBeforeFillers(i_b)))
FillerCount(i_b) ==
    (IF i_b = n_bounds THEN Len(inversion_model.thickness)
     ELSE At0(inversion_model.boundary_inds, i_b))
    - (NodeBeforeFillers(i_b) + 1)
\* max(1, floor(gap / min_layer_thickness)), sought among the numbers up to
\* the number of layers from depth 0 to the base of the model and more
FloorOrOne(gap) ==
    CHOOSE n \in 1..(1 + FFloorDiv(setup_model.depth_limits[2],
                                   setup_model.min_layer_thickness)) :
        /\ FLt(gap, FMul(R(n + 1), setup_model.min_layer_thickness))
        /\ n > 1 => FLe(FMul(R(n), setup_model.min_layer_thickness), gap)
RECURSIVE ClaimedNodes(_)
ClaimedNodes(i_b) ==
    IF i_b = n_bounds THEN FloorOrOne(FillerGap(i_b))
    ELSE FloorOrOne(FillerGap(i_b)) + 3 + ClaimedNodes(i_b + 1)

\* C23: the number of filler layers above every boundary and above the base
\* of the model is max(1, floor(gap / min_layer_thickness)), so at least 1
\* also when the gap is under min_layer_thickness; the model has
\* 1 + sum over the boundaries of (fillers + 3) + bottom fillers nodes, and
\* vsv and thickness both have that length.
C23_FillerCounts ==
    Built =>
        /\ \A i_b \in 0..n_bounds :
              /\ FillerCount(i_b) = FloorOrOne(FillerGap(i_b))
              /\ FillerCount(i_b) >= 1
        /\ Len(inversion_model.thickness) = 1 + ClaimedNodes(0)
        /\ Len(inversion_model.vsv) = Len(inversion_model.thickness)

\* a built model with two boundaries, a gap under min_layer_thickness filled
\* with one layer and a gap filled with more than one
C23_Witness ==
    /\ Built
    /\ n_bounds = 2
    /\ \E i_b \in 0..n_bounds :
          /\ FLt(R(0), FillerGap(i_b))
          /\ FLt(FillerGap(i_b), setup_model.min_layer_thickness)
          /\ FillerCount(i_b) = 1
    /\ \E i_b \in 0..n_bounds : FillerCount(i_b) > 1

\* thickness index k (from 0) is the fixed-width layer of a boundary
IsBoundaryLayer(k) ==
    \E i_b \in 0..(n_bounds - 1) :
        k = At0(inversion_model.boundary_inds, i_b) + 1
\* thickness index k is a filler layer above boundary i_b (or above the base)
IsFillerOf(k, i_b) ==
    /\ NodeBeforeFillers(i_b) < k
    /\ k <= NodeBeforeFillers(i_b) + FillerCount(i_b)

\* C24 (as claimed): in the model built for a valid SetupModel every
\* thickness entry except thickness[0] and the fixed-width boundary layers
\* thickness[boundary_inds[i] + 1] is at least min_layer_thickness.
C24_MinimumThickness ==
    (Built /\ ValidSetupModel(setup_model)) =>
        \A k \in 1..(Len(inversion_model.thickness) - 1) :
            ~IsBoundaryLayer(k) =>
                FLe(setup_model.min_layer_thickness,
                    At0(inversion_model.thickness, k))

\* what holds: the padding layers on both sides of a boundary are at least
\* min_layer_thickness, and the filler layers of a gap are exactly when the
\* gap itself is; a smaller gap is one layer as thick as the gap
C24_MinimumThicknessWhereTheGapAllows ==
    (Built /\ ValidSetupModel(setup_model)) =>
        /\ \A i_b \in 0..(n_bounds - 1) :
              /\ FLe(setup_model.min_layer_thickness,
                     At0(inversion_model.thickness,
                         At0(inversion_model.boundary_inds, i_b)))
              /\ FLe(setup_model.min_layer_thickness,
                     At0(inversion_model.thickness,
                         At0(inversion_model.boundary_inds, i_b) + 2))
        /\ \A i_b \in 0..n_bounds :
              \A k \in 1..(Len(inversion_model.thickness) - 1) :
                  IsFillerOf(k, i_b) =>
                      /\ FLe(setup_model.min_layer_thickness,
                             At0(inversion_model.thickness, k))
                            <=> FLe(setup_model.min_layer_thickness,
                                    FillerGap(i_b))
                      /\ FLt(FillerGap(i_b), setup_model.min_layer_thickness)
                            => At0(inversion_model.thickness, k)
                                 = FillerGap(i_b)

\* the rows returned by the last call of _extract_rf_constraints
Returned == rfs.called /\ ~rfs.is_None
Quantile10(col) ==
    quantile([k \in 1..Len(all_rfs) |-> all_rfs[k][col]], Q(1, 10))
HasColumn(col) == col \in DOMAIN all_rfs[1]
\* the dv of the boundary is read from the dv columns
DvRead(bound) == HasColumn("dv" \o bound) /\ HasColumn("dv" \o bound \o "std")
\* the row of the data set that the call has read
ObservationRead ==
    all_rfs[_find_closest_lat_lon(all_rfs, rfs.location).value]

\* C25 (as claimed): every ttstd and every dvstd of the constraints returned
\* by _extract_rf_constraints is at least the 10% quantile of its standard
\* deviation column over the whole data set, whether dv is read from the dv
\* columns or converted from the amplitude.
C25_StdAtLeastQuantile ==
    Returned =>
        \A ib \in 1..Len(rfs.value) :
            LET bound == rfs.boundaries[1][ib]
            IN  /\ FLe(Quantile10("tt" \o bound \o "std"),
                       rfs.value[ib].ttstd)
                /\ FLe(Quantile10(IF DvRead(bound)
                                  THEN "dv" \o bound \o "std"
                                  ELSE "amp" \o bound \o "std"),
                       rfs.value[ib].dvstd)

\* what holds: ttstd is at least the quantile; a dvstd read from the dv
\* columns is the value of the data set as it is, also under the quantile;
\* a dvstd converted from the amplitude is the conversion of an amplitude
\* error that is at least the quantile
C25_StdAsComputed ==
    Returned =>
        \A ib \in 1..Len(rfs.value) :
            LET bound == rfs.boundaries[1][ib]
                amp_std == "amp" \o bound \o "std"
            IN  /\ FLe(Quantile10("tt" \o bound \o "std"),
                       rfs.value[ib].ttstd)
                /\ DvRead(bound) =>
                      rfs.value[ib].dvstd
                         = ObservationRead["dv" \o bound \o "std"]
                /\ ~DvRead(bound) =>
                      \E ampstd \in { ObservationRead[amp_std],
                                       Quantile10(amp_std) } :
                          /\ FLe(Quantile10(amp_std), ampstd)
                          /\ FLe(ObservationRead[amp_std], ampstd)
                          /\ rfs.value[ib].dvstd =
                                _convert_amplitude_to_dv(
                                    ObservationRead["amp" \o bound],
                                    ampstd,
                                    ObservationRead["type" \o bound],
                                    rfs.boundaries[2][ib]).value[2]

\* constraints returned with a dvstd read from the dv columns, and with a
\* dvstd converted from an amplitude error that was under the quantile
C25_ReadFromDvColumns ==
    /\ Returned
    /\ \E ib \in 1..Len(rfs.value) : DvRead(rfs.boundaries[1][ib])
C25_ConvertedFromAmplitude ==
    /\ Returned
    /\ \E ib \in 1..Len(rfs.value) :
          LET amp_std == "amp" \o rfs.boundaries[1][ib] \o "std"
          IN  /\ ~DvRead(rfs.boundaries[1][ib])
              /\ FLt(ObservationRead[amp_std], Quantile10(amp_std))

\* C26 (as claimed): the thickness entries of every built model sum to
\* depth_limits[1], and the vsv of the deepest node is the velocity of the
\* reference model interpolated at depth_limits[1].
C26_BaseNodePinned ==
    Built =>
        /\ SumSeq(inversion_model.thickness) = setup_model.depth_limits[2]
        /\ Last(inversion_model.vsv)
              = ref_vs_at(setup_model, setup_model.depth_limits[2])

\* what holds: the sum is depth_limits[1]; the deepest vsv is the reference
\* velocity when the fillers above the base have a depth to fill, and is not
\* a number when the node before them is already at depth_limits[1]
\* (0 / 0 or x / 0 in vsv_grad_below)
C26_BaseNodePinnedUnlessNoGap ==
    Built =>
        /\ SumSeq(inversion_model.thickness) = setup_model.depth_limits[2]
        /\ FillerGap(n_bounds) # R(0) =>
              Last(inversion_model.vsv)
                 = ref_vs_at(setup_model, setup_model.depth_limits[2])
        /\ FillerGap(n_bounds) = R(0) => ~IsFinite(Last(inversion_model.vsv))

\* the nodes dm/dt reads for boundary i_b: ib - 1 .. ib + 2
NodeWindow(i_b) ==
    (At0(inversion_model.boundary_inds, i_b) - 1)
        ..(At0(inversion_model.boundary_inds, i_b) + 2)

\* C27: in every built model boundary_inds[0] >= 2, consecutive
\* boundary_inds differ by at least 4 and boundary_inds[last] + 3 <=
\* len(vsv) - 1; the node windows [ib - 1, ib + 2] of different boundaries
\* are pairwise disjoint, lie inside vsv and thickness, and hold neither the
\* surface node 0 nor the deepest node.
C27_BoundaryWindows ==
    (Built /\ n_bounds > 0) =>
        LET inds == inversion_model.boundary_inds
            n == Len(inversion_model.vsv)
        IN  /\ Len(inds) = n_bounds
            /\ At0(inds, 0) >= 2
            /\ \A i_b \in 1..(n_bounds - 1) :
                  At0(inds, i_b) - At0(inds, i_b - 1) >= 4
            /\ At0(inds, n_bounds - 1) + 3 <= n - 1
            /\ \A i_b \in 0..(n_bounds - 1) :
                  /\ NodeWindow(i_b) \subseteq 1..(n - 2)
                  /\ NodeWindow(i_b)
                        \subseteq 0..(Len(inversion_model.thickness) - 1)
                  /\ \A j_b \in 0..(n_bounds - 1) :
                        i_b # j_b => NodeWindow(i_b) \cap NodeWindow(j_b) = {}

\* a built model with two boundaries as close as the layering allows: the
\* first at index 2, the second four nodes on
C27_Witness ==
    /\ Built
    /\ n_bounds = 2
    /\ At0(inversion_model.boundary_inds, 0) = 2
    /\ At0(inversion_model.boundary_inds, 1) = 6

\* every thickness after the first is positive
PositiveLayers ==
    \A k \in 1..(Len(inversion_model.thickness) - 1) :
        FLt(R(0), At0(inversion_model.thickness, k))
\* sum of row k of dm/ds
dm_ds_row_sum(k) ==
    SumTo([i \in 1..(Len(inversion_model.vsv) - 1) |-> dm_ds_entry(k, i - 1)],
          Len(inversion_model.vsv) - 1)

\* C28: for a model whose thicknesses after the first are positive, every
\* entry of dm/ds is in [0, 1]; the row of a card depth z sums to 1 when
\* y_0 <= z <= y_{n-2}, to 1 - (z - y_{n-2}) / thickness[n-1] when
\* y_{n-2} < z < y_{n-1}, and is all zero when z < y_0 or z >= y_{n-1}
\* (n = len(vsv)).
C28_dm_ds_RowSums ==
    (dm_dp_mat # NoMatrix /\ PositiveLayers) =>
        LET n == Len(inversion_model.vsv)
        IN  \A k \in 1..Len(CardDepths) :
                LET z == CardDepths[k]
                IN  /\ \A i \in 0..(n - 2) :
                          /\ FLe(R(0), dm_ds_entry(k, i))
                          /\ FLe(dm_ds_entry(k, i), R(1))
                    /\ (FLe(y(0), z) /\ FLe(z, y(n - 2))) =>
                          dm_ds_row_sum(k) = R(1)
                    /\ (FLt(y(n - 2), z) /\ FLt(z, y(n - 1))) =>
                          dm_ds_row_sum(k)
                            = FSub(R(1),
                                   FDiv(FSub(z, y(n - 2)),
                                        At0(inversion_model.thickness, n - 1)))
                    /\ (FLt(z, y(0)) \/ FLe(y(n - 1), z)) =>
                          \A i \in 0..(n - 2) : dm_ds_entry(k, i) = R(0)

\* a dm/ds with a card depth above the model, on a node, inside a layer
\* where two nodes share the sum, inside the deepest layer, and at the base
C28_Witness ==
    /\ dm_dp_mat # NoMatrix /\ PositiveLayers
    /\ LET n == Len(inversion_model.vsv)
       IN  /\ \E k \in 1..Len(CardDepths) : FLt(CardDepths[k], y(0))
           /\ \E k \in 1..Len(CardDepths) :
                 \E i \in 1..(n - 2) : CardDepths[k] = y(i)
           /\ \E k \in 1..Len(CardDepths) :
                 \E i \in 0..(n - 3) :
                     /\ FLt(R(0), dm_ds_entry(k, i))
                     /\ FLt(R(0), dm_ds_entry(k, i + 1))
           /\ \E k \in 1..Len(CardDepths) :
                 /\ FLt(y(n - 2), CardDepths[k])
                 /\ FLt(CardDepths[k], y(n - 1))
                 /\ FLt(R(0), dm_ds_row_sum(k))
                 /\ FLt(dm_ds_row_sum(k), R(1))
           /\ \E k \in 1..Len(CardDepths) : CardDepths[k] = y(n - 1)

\* the kernel table with other Eta kernel values, with other Vsh kernel
\* values, and the SetupModel with another vsv_vsh_ratio
OtherEta(ks) ==
    [k \in 1..Len(ks) |->
        [ks[k] EXCEPT !.eta = FAdd(FMul(ks[k].eta, R(-3)), R(k))]]
OtherVsh(ks) ==
    [k \in 1..Len(ks) |->
        [ks[k] EXCEPT !.vsh = FAdd(FMul(ks[k].vsh, R(2)), R(5))]]
OtherRatios(sm) ==
    { [sm EXCEPT !.vsv_vsh_ratio = r] :
        r \in { Q(1, 2), Q(3, 2), R(2) } \ { sm.vsv_vsh_ratio } }
SameJacobian(ks, sm) ==
    LET other == _build_partial_derivatives_matrix(ks, inversion_model, sm)
    IN  other.raised = raised /\ other.value = G_inversion_model

\* C29: the Jacobian of a call does not change when the Eta kernel values of
\* the table change, and for a Rayleigh table it does not change either when
\* the Vsh kernel values and vsv_vsh_ratio change.
C29_IndependentOfEtaAndVsh ==
    JacobianCalled =>
        /\ SameJacobian(OtherEta(kernels), setup_model)
        /\ RayleighOnly(kernels) =>
              \A sm \in OtherRatios(setup_model) :
                  SameJacobian(OtherVsh(OtherEta(kernels)), sm)

\* a Jacobian returned for a Rayleigh table with two periods
C29_Witness ==
    /\ G_inversion_model # NoMatrix
    /\ RayleighOnly(kernels)
    /\ Cardinality(DistinctPeriods(kernels)) = 2
    /\ \E k \in 1..Len(kernels) :
          kernels[k].eta # R(0) /\ kernels[k].vsh # R(0)
    /\ \E r \in 1..Len(G_inversion_model.data) :
          \E c \in 1..Len(G_inversion_model.data[r]) :
              G_inversion_model.data[r][c] # R(0)

\* the rows of the table that belong to period p, in table order
RowsOfPeriod(p) ==
    LET OfPeriod(row) == row.period = p IN SelectSeq(kernels, OfPeriod)
\* every period has exactly one row for every card depth
OneRowPerDepth ==
    \A p \in DistinctPeriods(kernels) :
        /\ Len(RowsOfPeriod(p)) = Len(CardDepths)
        /\ \A k \in 1..Len(CardDepths) :
              \E j \in 1..Len(RowsOfPeriod(p)) :
                  RowsOfPeriod(p)[j].z = CardDepths[k]
\* every period lists its depth rows in the same order
SameDepthOrder ==
    \A p \in DistinctPeriods(kernels) :
        \A j \in 1..Len(RowsOfPeriod(p)) :
            RowsOfPeriod(p)[j].z = CardDepths[j]
\* the row of dm/dp computed for card depth z
RowOfDepth(z) == CHOOSE k \in 1..Len(CardDepths) : CardDepths[k] = z
\* the kernel values of a table row times their ratios to the Vsv kernel,
\* zeroed as the wave type of the first row of the table asks
CombinedKernel(row) ==
    IF kernels[1].type = "Love"
    THEN FAdd(row.vsv, FDiv(row.vsh, setup_model.vsv_vsh_ratio))
    ELSE FAdd(row.vsv,
              FAdd(FMul(row.vpv, setup_model.vpv_vsv_ratio),
                   FDiv(FMul(row.vph, setup_model.vpv_vsv_ratio),
                        setup_model.vpv_vph_ratio)))
OwnDepthProduct(p, c) ==
    LET rows == RowsOfPeriod(p)
    IN  Dot([j \in 1..Len(rows) |-> CombinedKernel(rows[j])],
            [j \in 1..Len(rows) |-> BlockEntry(1, RowOfDepth(rows[j].z), c)])

\* C30 (as claimed): for a table in which every period has exactly one row
\* per card depth, in whatever order, every kernel value is multiplied by the
\* dm/dp row of its own card depth: G[k, c] is the sum over the rows r of the
\* k-th period of kernel(r) * dm/dp[row of r.z, c].
C30_OwnDepthRows ==
    (G_inversion_model # NoMatrix /\ OneRowPerDepth) =>
        LET rows == MatrixRows(G_inversion_model)
        IN  \A k \in 1..Len(rows) : \A c \in 1..n_parameters :
                rows[k][c] = OwnDepthProduct(PeriodsAscending[k], c)

\* what holds: the same when every period lists its depth rows in the order
\* in which the depths first appear in the table; the j-th row of a period is
\* multiplied by the dm/dp row of the j-th distinct depth of the table
C30_OwnDepthRowsInTableOrder ==
    (G_inversion_model # NoMatrix /\ OneRowPerDepth /\ SameDepthOrder) =>
        LET rows == MatrixRows(G_inversion_model)
        IN  \A k \in 1..Len(rows) : \A c \in 1..n_parameters :
                rows[k][c] = OwnDepthProduct(PeriodsAscending[k], c)

\* a Jacobian of a table with two periods in the same depth order
C30_SameOrderReached ==
    /\ G_inversion_model # NoMatrix
    /\ OneRowPerDepth /\ SameDepthOrder
    /\ Cardinality(DistinctPeriods(kernels)) = 2
====
